---- MODULE Spec2Model ----
(***************************************************************************)
(* Business Case Command Center.                                           *)
(*                                                                         *)
(* The vanilla-JS application (backend/app/static/js/app.js): the global   *)
(* `state` object, the DOM inputs its handlers read, and the handlers      *)
(* handleDataChange, validateStrategyForm, handleSignOff and               *)
(* resetBusinessCase; the React store (frontend/src/store);  and the       *)
(* financial modelling engine (NPV, IRR, payback period, ROFE, sensitivity *)
(* analysis).                                                              *)
(*                                                                         *)
(* JavaScript numbers are modelled by six-digit decimal floating-point     *)
(* numbers, together with the values NaN and +/-Infinity.                  *)
(***************************************************************************)
EXTENDS Integers, Sequences, FiniteSets, TLC

(***************************************************************************)
(* JavaScript numbers.  A number is a decimal floating-point record        *)
(* [m, e], the value m * 10^e with a six-digit mantissa                    *)
(* (100000 <= |m| <= 999999, or m = 0 and e = 0), and every operation      *)
(* rounds its result to six digits, as IEEE-754 rounds to 53 bits.  The    *)
(* exponent FTop marks the non-finite values: NaN is [0, FTop], Infinity   *)
(* [1, FTop], -Infinity [-1, FTop].                                        *)
(***************************************************************************)
Abs(x) == IF x < 0 THEN -x ELSE x

Sign(x) == IF x < 0 THEN -1 ELSE IF x > 0 THEN 1 ELSE 0

FTop == 1000 * 1000

NaN == [m |-> 0, e |-> FTop]

IsNaN(a) == a.e = FTop /\ a.m = 0

IsFinite(a) == a.e # FTop

IsZero(a) == a.m = 0 /\ a.e # FTop

\* The number of decimal digits of a >= 0, and the powers of ten.
Digits(a) ==
    IF a < 100000
    THEN (IF a < 10 THEN 1 ELSE IF a < 100 THEN 2 ELSE IF a < 1000 THEN 3
          ELSE IF a < 10000 THEN 4 ELSE 5)
    ELSE IF a < 1000000 THEN 6 ELSE IF a < 10000000 THEN 7
    ELSE IF a < 100000000 THEN 8 ELSE IF a < 1000000000 THEN 9 ELSE 10

PowersOfTen == <<1, 10, 100, 1000, 10000, 100000, 1000000, 10000000, 100000000,
                 1000000000>>

Pow10(k) == PowersOfTen[k + 1]

\* x / p rounded to the nearest integer, halves away from zero (p > 0).
RoundDiv(x, p) == Sign(x) * ((Abs(x) + p \div 2) \div p)

\* The number r * 10^e, r a mantissa just rounded to six digits.
Rounded(r, e) ==
    IF Abs(r) = 1000000 THEN [m |-> r \div 10, e |-> e + 1] ELSE [m |-> r, e |-> e]

\* The number nearest to m * 10^e, m # 0 an integer of k digits.
Scaled(m, e, k) ==
    IF k > 6 THEN Rounded(RoundDiv(m, Pow10(k - 6)), e + (k - 6))
    ELSE [m |-> m * Pow10(6 - k), e |-> e - (6 - k)]

\* The number nearest to m * 10^e.
FNorm(m, e) == IF m = 0 THEN [m |-> 0, e |-> 0] ELSE Scaled(m, e, Digits(Abs(m)))

\* The number nearest to the integer k
Num(k) == FNorm(k, 0)

Neg(a) == [m |-> -a.m, e |-> a.e]

\* a + b of finite non-zero numbers a and b, a the one of the larger exponent
AddAligned(a, b, diff) ==
    IF diff > 9 THEN a
    ELSE FNorm(IF diff <= 3 THEN a.m * Pow10(diff) + b.m
               ELSE a.m * 1000 + RoundDiv(b.m, Pow10(diff - 3)),
               IF diff <= 3 THEN b.e ELSE a.e - 3)

\* a + b; Infinity + -Infinity is NaN
Add(a, b) ==
    IF a.e = FTop \/ b.e = FTop
    THEN (IF a.e = b.e /\ a.m # b.m THEN NaN ELSE IF a.e = FTop THEN a ELSE b)
    ELSE IF a.m = 0 THEN b
    ELSE IF b.m = 0 THEN a
    ELSE IF a.e >= b.e THEN AddAligned(a, b, a.e - b.e)
    ELSE AddAligned(b, a, b.e - a.e)

Sub(a, b) == Add(a, Neg(b))

\* The first seven digits of the product of the mantissas x and y
MulTop(x, y) ==
    (x \div 1000) * (y \div 1000) * 10
    + (((x \div 1000) * (y % 1000) + (x % 1000) * (y \div 1000)) * 1000
       + (x % 1000) * (y % 1000)) \div 100000

\* a * b; Infinity * 0 is NaN
Mul(a, b) ==
    IF a.e = FTop \/ b.e = FTop THEN [m |-> Sign(a.m) * Sign(b.m), e |-> FTop]
    ELSE FNorm(Sign(a.m) * Sign(b.m) * MulTop(Abs(a.m), Abs(b.m)), a.e + b.e + 5)

\* The first seven digits of the quotient of the mantissas x and y, by long
\* division: q1 three digits on from  x, q2 three digits on from the rest r1
DivLast(y, q1, q2, r2) == (q1 * 1000 + q2) * 10 + (r2 * 10) \div y

DivNext(y, q1, r1) == DivLast(y, q1, (r1 * 1000) \div y, (r1 * 1000) % y)

DivTop(x, y) == DivNext(y, (x * 1000) \div y, (x * 1000) % y)

\* a / b; x / 0 is an infinity for x # 0, 0 / 0 and Infinity / Infinity are
\* NaN, x / Infinity is 0
Div(a, b) ==
    IF IsNaN(a) \/ IsNaN(b) THEN NaN
    ELSE IF b.e = FTop THEN (IF a.e = FTop THEN NaN ELSE [m |-> 0, e |-> 0])
    ELSE IF a.e = FTop \/ b.m = 0
    THEN [m |-> Sign(a.m) * (IF b.m < 0 THEN -1 ELSE 1), e |-> FTop]
    ELSE FNorm(Sign(a.m) * Sign(b.m) * DivTop(Abs(a.m), Abs(b.m)), a.e - b.e - 7)

\* The number nearest to the fraction n/d
Q(n, d) == Div(Num(n), Num(d))

\* a < b and a <= b; every comparison with NaN is false.
Lt(a, b) ==
    IF IsNaN(a) \/ IsNaN(b) THEN FALSE
    ELSE IF a.e = FTop \/ b.e = FTop
    THEN (IF a.e = FTop THEN a.m ELSE 0) < (IF b.e = FTop THEN b.m ELSE 0)
    ELSE IF a.m = 0 \/ b.m = 0 \/ (a.m < 0) # (b.m < 0) THEN Sign(a.m) < Sign(b.m)
    ELSE IF a.e = b.e THEN a.m < b.m
    ELSE IF a.m > 0 THEN a.e < b.e
    ELSE a.e > b.e

Le(a, b) == ~IsNaN(a) /\ ~IsNaN(b) /\ (a = b \/ Lt(a, b))

Gt(a, b) == Lt(b, a)

Ge(a, b) == Le(b, a)

\* a === b on numbers: NaN equals nothing
NumEq(a, b) == ~IsNaN(a) /\ ~IsNaN(b) /\ a = b

\* Math.abs, Math.max and Math.pow (integer exponent k >= 0).
MathAbs(a) == [m |-> Abs(a.m), e |-> a.e]

MathMax(a, b) ==
    IF IsNaN(a) \/ IsNaN(b) THEN NaN
    ELSE IF Lt(a, b) THEN b ELSE a

RECURSIVE MathPow(_, _)
MathPow(a, k) == IF k = 0 THEN Num(1) ELSE Mul(MathPow(a, k - 1), a)

(***************************************************************************)
(* Exact rational arithmetic, for the React store, whose amounts are only  *)
(* added, and for the exact value of a formula at a rounded number.  A     *)
(* rational is a record [n, d]: n/d in lowest terms with d > 0, or, with   *)
(* d = 0, NaN [0, 0], Infinity [1, 0] or -Infinity [-1, 0].                *)
(***************************************************************************)
RECURSIVE GCD(_, _)
GCD(a, b) == IF b = 0 THEN a ELSE GCD(b, a % b)

\* n/d in lowest terms with a positive denominator; n/0 is NaN or an infinity.
Ratio(n, d) ==
    IF d = 0 THEN [n |-> Sign(n), d |-> 0]
    ELSE [n |-> (Sign(d) * n) \div GCD(Abs(n), Abs(d)),
          d |-> Abs(d) \div GCD(Abs(n), Abs(d))]

Whole(k) == [n |-> k, d |-> 1]

QNeg(a) == [n |-> -a.n, d |-> a.d]

QAbs(a) == [n |-> Abs(a.n), d |-> a.d]

QAdd(a, b) ==
    IF a.d = 0 /\ b.d = 0
    THEN (IF a.n = b.n THEN a ELSE [n |-> 0, d |-> 0])
    ELSE Ratio(a.n * b.d + b.n * a.d, a.d * b.d)

QMul(a, b) == Ratio(a.n * b.n, a.d * b.d)

\* a / b for b finite and not zero
QDiv(a, b) == Ratio(a.n * b.d, a.d * b.n)

\* a < b for finite a and b
QLt(a, b) == a.n * b.d < b.n * a.d

(***************************************************************************)
(* parseFloat on the text of an input element.  A text is a sequence of    *)
(* one-character strings; parseFloat reads an optional sign, digits and an *)
(* optional fraction, ignores what follows, and gives NaN when no digit    *)
(* leads.                                                                  *)
(***************************************************************************)
DigitOf(c) ==
    CASE c = "0" -> 0 [] c = "1" -> 1 [] c = "2" -> 2 [] c = "3" -> 3
      [] c = "4" -> 4 [] c = "5" -> 5 [] c = "6" -> 6 [] c = "7" -> 7
      [] c = "8" -> 8 [] c = "9" -> 9 [] OTHER -> -1

\* The longest prefix of digits of text from position i on, as [value, next].
RECURSIVE ReadDigits(_, _, _)
ReadDigits(text, i, acc) ==
    IF i <= Len(text) /\ DigitOf(text[i]) >= 0
    THEN ReadDigits(text, i + 1, acc * 10 + DigitOf(text[i]))
    ELSE [value |-> acc, next |-> i]

parseFloat(text) ==
    LET neg   == Len(text) >= 1 /\ text[1] = "-"
        start == IF neg THEN 2 ELSE 1
        int   == ReadDigits(text, start, 0)
        dot   == int.next <= Len(text) /\ text[int.next] = "."
        frac  == IF dot THEN ReadDigits(text, int.next + 1, 0)
                 ELSE [value |-> 0, next |-> int.next]
        nfrac == IF dot THEN frac.next - (int.next + 1) ELSE 0
        mag   == Add(Num(int.value), Div(Num(frac.value), Num(Pow10(nfrac))))
    IN  IF int.next = start /\ nfrac = 0 THEN NaN
        ELSE IF neg THEN Neg(mag) ELSE mag

\* JavaScript truthiness of a number: neither NaN nor zero.
Truthy(a) == ~IsNaN(a) /\ ~IsZero(a)

\* parseFloat(text) || 0
parseFloatOrZero(text) ==
    LET v == parseFloat(text) IN IF Truthy(v) THEN v ELSE Num(0)

\* parseFloat(text || dflt), dflt a number literal
parseFloatOrDefault(text, dflt) ==
    IF text # <<>> THEN parseFloat(text) ELSE Num(dflt)

(***************************************************************************)
(* The financial data model: app.js calculateDerivedFields.                *)
(***************************************************************************)
\* A variant that floors the tax at zero, as the cash-flow computation does.
calculateDerivedFieldsTaxFloor(data) ==
    [i \in DOMAIN data |->
        LET row           == data[i]
            gross_profit  == Sub(row.revenue, row.costs)
            ebitda        == Sub(gross_profit, row.operating_expenses)
            ebit          == Sub(ebitda, row.depreciation)
            pretax_income == Sub(ebit, row.interest)
            taxes         == MathMax(Num(0), Mul(pretax_income, Q(25, 100)))
            net_income    == Sub(pretax_income, taxes)
        IN  [row EXCEPT !.gross_profit = gross_profit,
                        !.ebitda = ebitda,
                        !.ebit = ebit,
                        !.taxes = taxes,
                        !.net_income = net_income]]

calculateDerivedFields(data) ==
    [i \in DOMAIN data |->
        LET row           == data[i]
            gross_profit  == Sub(row.revenue, row.costs)
            ebitda        == Sub(gross_profit, row.operating_expenses)
            ebit          == Sub(ebitda, row.depreciation)
            pretax_income == Sub(ebit, row.interest)
            taxes         == Mul(pretax_income, Q(25, 100))
            net_income    == Sub(pretax_income, taxes)
        IN  [row EXCEPT !.gross_profit = gross_profit,
                        !.ebitda = ebitda,
                        !.ebit = ebit,
                        !.taxes = taxes,
                        !.net_income = net_income]]

(***************************************************************************)
(* The financial modelling engine of app.js.  Sequences are 1-based: the   *)
(* element the code calls cashFlows[i] is cashFlows[i + 1] here, and the   *)
(* operators below take the code's 0-based index.                          *)
(***************************************************************************)
Null == [null |-> TRUE]

IsNull(x) == "null" \in DOMAIN x

\* adjustedNetIncome - adjustedTaxes + fd.depreciation, the taxes floored at 0
afterTaxes(adjustedNetIncome, depreciation) ==
    Add(Sub(adjustedNetIncome, MathMax(Num(0), Mul(adjustedNetIncome, Q(25, 100)))),
        depreciation)

\* The cash flow of year `index` as updateFinancialMetrics computes it.
cashFlow(fd, index, inflationRate) ==
    afterTaxes(Sub(Sub(Sub(Sub(fd.revenue,
                               Mul(fd.costs, MathPow(Add(Num(1), inflationRate), index))),
                           Mul(fd.operating_expenses,
                               MathPow(Add(Num(1), inflationRate), index))),
                       fd.depreciation), fd.interest),
               fd.depreciation)

\* A variant that stresses the costs by 10% as well.
stressedCashFlowCostsToo(fd, index, inflationRate) ==
    cashFlow([fd EXCEPT !.revenue = Mul(@, Q(9, 10)), !.costs = Mul(@, Q(11, 10))],
             index, inflationRate)

\* The stressed cash flow of year `index` as runSensitivityAnalysis computes it.
stressedCashFlow(fd, index, inflationRate) ==
    afterTaxes(Sub(Sub(Sub(Sub(Mul(fd.revenue, Q(9, 10)),
                               Mul(fd.costs, MathPow(Add(Num(1), inflationRate), index))),
                           Mul(fd.operating_expenses,
                               MathPow(Add(Num(1), inflationRate), index))),
                       fd.depreciation), fd.interest),
               fd.depreciation)

\* financial_data.map((fd, index) => ...): the cash flows of the years from
\* row `index` on appended to `out`, stressed or not.
RECURSIVE MapRows(_, _, _, _, _)
MapRows(financial_data, inflationRate, stressed, out, index) ==
    IF index < Len(financial_data)
    THEN MapRows(financial_data, inflationRate, stressed,
                 Append(out, IF stressed
                             THEN stressedCashFlow(financial_data[index + 1], index,
                                                   inflationRate)
                             ELSE cashFlow(financial_data[index + 1], index,
                                           inflationRate)),
                 index + 1)
    ELSE out

\* A variant that does not discount the first cash flow.
discountedFromYearZero(cashFlows, discountRate, i) ==
    Div(cashFlows[i + 1], MathPow(Add(Num(1), discountRate), i))

\* One term of the NPV sum: cashFlows[i] / Math.pow(1 + discountRate, i + 1).
discounted(cashFlows, discountRate, i) ==
    Div(cashFlows[i + 1], MathPow(Add(Num(1), discountRate), i + 1))

RECURSIVE NPVLoop(_, _, _, _)
NPVLoop(cashFlows, discountRate, npv, i) ==
    IF i < Len(cashFlows)
    THEN NPVLoop(cashFlows, discountRate,
                 Add(npv, discounted(cashFlows, discountRate, i)), i + 1)
    ELSE npv

calculateNPV(cashFlows, discountRate, initialInvestment) ==
    NPVLoop(cashFlows, discountRate, Neg(initialInvestment), 0)

\* A variant that takes the fraction of the year from the cumulative cash
\* flow after the year.
paybackAtAfterYear(cashFlows, cumulativeCashFlow, i) ==
    Add(Num(i), Div(MathAbs(cumulativeCashFlow), cashFlows[i + 1]))

\* The value calculatePaybackPeriod returns in the year the cumulative cash
\* flow first is >= 0.
paybackAt(cashFlows, cumulativeCashFlow, i) ==
    LET previousCumulative == Sub(cumulativeCashFlow, cashFlows[i + 1])
        fraction == Div(MathAbs(previousCumulative), cashFlows[i + 1])
    IN  Add(Num(i), fraction)

RECURSIVE PaybackLoop(_, _, _)
PaybackLoop(cashFlows, cumulative, i) ==
    IF i < Len(cashFlows)
    THEN LET cumulativeCashFlow == Add(cumulative, cashFlows[i + 1])
         IN  IF Ge(cumulativeCashFlow, Num(0))
             THEN paybackAt(cashFlows, cumulativeCashFlow, i)
             ELSE PaybackLoop(cashFlows, cumulativeCashFlow, i + 1)
    ELSE Null

calculatePaybackPeriod(cashFlows, initialInvestment) ==
    PaybackLoop(cashFlows, Neg(initialInvestment), 0)

(***************************************************************************)
(* calculateIRR: Newton-Raphson on the NPV as a function of the rate.  Its *)
(* state is a record: the working rate irr, the loop counter, how the      *)
(* function left ("running" while it has not) and the value returned.      *)
(***************************************************************************)
maxIterations == 100

\* tolerance = 0.0001 and the division-by-zero guard 1e-10
tolerance == [m |-> 100000, e |-> -9]

derivativeGuard == [m |-> 100000, e |-> -15]

\* irr = 0.1 before the first iteration
IRRStart == [irr |-> Q(1, 10), iteration |-> 0, exit |-> "running", value |-> Null]

\* The inner loop: npv and derivative at the rate irr.
RECURSIVE IRRSums(_, _, _, _, _)
IRRSums(cashFlows, irr, npv, derivative, i) ==
    IF i < Len(cashFlows)
    THEN IRRSums(cashFlows, irr,
                 Add(npv, Div(cashFlows[i + 1], MathPow(Add(Num(1), irr), i + 1))),
                 Sub(derivative,
                     Div(Mul(Num(i + 1), cashFlows[i + 1]),
                         MathPow(Add(Num(1), irr), i + 2))),
                 i + 1)
    ELSE [npv |-> npv, derivative |-> derivative]

\* Bound IRR to reasonable range
boundIrr(irr) ==
    IF Lt(irr, Q(-99, 100)) THEN Q(-99, 100)
    ELSE IF Lt(Num(10), irr) THEN Num(10)
    ELSE irr

\* A variant that takes a step below 0.01 for convergence.
iterateLooseTolerance(st, newIrr) ==
    IF Lt(MathAbs(Sub(newIrr, st.irr)), Q(1, 100))
    THEN [st EXCEPT !.exit = "converged", !.value = MathMax(Num(0), newIrr)]
    ELSE [st EXCEPT !.irr = boundIrr(newIrr), !.iteration = @ + 1]

\* The end of a pass, newIrr computed: the convergence test, and the bounds
\* on the rate of the next pass.
iterate(st, newIrr) ==
    IF Lt(MathAbs(Sub(newIrr, st.irr)), tolerance)
    THEN [st EXCEPT !.exit = "converged", !.value = MathMax(Num(0), newIrr)]
    ELSE [st EXCEPT !.irr = boundIrr(newIrr), !.iteration = @ + 1]

\* A variant without the guard on the derivative.
newtonStepUnguarded(st, s) ==
    iterate(st, Sub(st.irr, Div(s.npv, s.derivative)))

\* A pass from the guard on the derivative on, s the sums of the inner loop.
newtonStep(st, s) ==
    IF Lt(MathAbs(s.derivative), derivativeGuard)
    THEN [st EXCEPT !.exit = "guard", !.value = MathMax(Num(0), st.irr)]
    ELSE iterate(st, Sub(st.irr, Div(s.npv, s.derivative)))

\* One pass through the for loop (or the return after it).
IRRStep(cashFlows, initialInvestment, st) ==
    IF st.iteration >= maxIterations
    THEN [st EXCEPT !.exit = "exhausted", !.value = MathMax(Num(0), st.irr)]
    ELSE newtonStep(st, IRRSums(cashFlows, st.irr, Neg(initialInvestment), Num(0), 0))

\* `passes` passes through the for loop from the state st on; a pass after
\* the function has left changes nothing.  (The passes are composed by halves
\* to keep the evaluation shallow.)
RECURSIVE IRRPasses(_, _, _, _)
IRRPasses(cashFlows, initialInvestment, st, passes) ==
    IF st.exit # "running" \/ passes = 0 THEN st
    ELSE IF passes = 1 THEN IRRStep(cashFlows, initialInvestment, st)
    ELSE IRRPasses(cashFlows, initialInvestment,
                   IRRPasses(cashFlows, initialInvestment, st, passes \div 2),
                   passes - passes \div 2)

\* The for loop and the return after it: at most maxIterations passes that
\* compute a new rate and one that finds the counter exhausted.
IRRRun(cashFlows, initialInvestment) ==
    IRRPasses(cashFlows, initialInvestment, IRRStart, maxIterations + 1)

calculateIRR(cashFlows, initialInvestment) ==
    IRRRun(cashFlows, initialInvestment).value

(***************************************************************************)
(* updateFinancialMetrics and runSensitivityAnalysis.                      *)
(***************************************************************************)
\* data.reduce((sum, fd) => sum + fd[field], 0), from row i on
RECURSIVE SumField(_, _, _, _)
SumField(data, field, sum, i) ==
    IF i < Len(data) THEN SumField(data, field, Add(sum, data[i + 1][field]), i + 1)
    ELSE sum

\* data.reduce((sum, fd) => sum + fd.costs + fd.operating_expenses, 0)
RECURSIVE SumCosts(_, _, _)
SumCosts(data, sum, i) ==
    IF i < Len(data)
    THEN SumCosts(data, Add(Add(sum, data[i + 1].costs), data[i + 1].operating_expenses),
                  i + 1)
    ELSE sum

\* A variant without the guard on the investment.
calculateROFEUnguarded(financial_data, initialInvestment) ==
    Mul(Div(Div(SumField(financial_data, "net_income", Num(0), 0),
                Num(Len(financial_data))),
            initialInvestment), Num(100))

\* ROFE (Return on Funds Employed)
calculateROFE(financial_data, initialInvestment) ==
    LET totalNetIncome == SumField(financial_data, "net_income", Num(0), 0)
        averageNetIncome == Div(totalNetIncome, Num(Len(financial_data)))
    IN  IF Gt(initialInvestment, Num(0))
        THEN Mul(Div(averageNetIncome, initialInvestment), Num(100))
        ELSE Num(0)

\* The metrics record updateFinancialMetrics stores, the cash flows computed.
metricsOf(financial_data, cashFlows, inflationRate, hurdleRate, initialInvestment) ==
    [npv |-> calculateNPV(cashFlows, hurdleRate, initialInvestment),
     irr |-> Mul(calculateIRR(cashFlows, initialInvestment), Num(100)),
     paybackPeriod |-> calculatePaybackPeriod(cashFlows, initialInvestment),
     rofe |-> calculateROFE(financial_data, initialInvestment),
     inflationRate |-> Mul(inflationRate, Num(100)),
     hurdleRate |-> Mul(hurdleRate, Num(100)),
     initialInvestment |-> initialInvestment]

\* updateFinancialMetrics, the three settings read.
metricsAt(financial_data, inflationRate, hurdleRate, initialInvestment) ==
    metricsOf(financial_data, MapRows(financial_data, inflationRate, FALSE, <<>>, 0),
              inflationRate, hurdleRate, initialInvestment)

\* The metrics record updateFinancialMetrics stores, computed from the
\* financial data and the text of the three settings inputs.
updateFinancialMetrics(financial_data, inputs) ==
    metricsAt(financial_data,
              Div(parseFloatOrDefault(inputs.inflation_rate_input, 3), Num(100)),
              Div(parseFloatOrDefault(inputs.hurdle_rate_input, 10), Num(100)),
              parseFloatOrDefault(inputs.initial_investment_input, 500000))

\* What runSensitivityAnalysis shows, the stressed NPV computed.
stressedResult(stressedCashFlows, stressedNpv, initialInvestment) ==
    [stressedCashFlows |-> stressedCashFlows,
     stressedNpv |-> stressedNpv,
     stressedIrr |-> Mul(calculateIRR(stressedCashFlows, initialInvestment), Num(100)),
     verdict |-> IF Ge(stressedNpv, Num(0)) THEN "viable" ELSE "not-viable",
     display |-> "block"]

\* runSensitivityAnalysis, the stressed cash flows computed.
stressedMetrics(stressedCashFlows, hurdleRate, initialInvestment) ==
    stressedResult(stressedCashFlows,
                   calculateNPV(stressedCashFlows, hurdleRate, initialInvestment),
                   initialInvestment)

\* What runSensitivityAnalysis shows: the stressed NPV and IRR and the verdict.
runSensitivityAnalysis(financial_data, metrics) ==
    stressedMetrics(MapRows(financial_data, Div(metrics.inflationRate, Num(100)), TRUE,
                            <<>>, 0),
                    Div(metrics.hurdleRate, Num(100)),
                    metrics.initialInvestment)

(***************************************************************************)
(* The Commercial Agent: runCommercialAgentCheck collects issues and shows *)
(* one banner.  A banner is [type, message, display]; the messages are     *)
(* named by short tags.                                                    *)
(***************************************************************************)
Issue(type, message) == [type |-> type, message |-> message]

\* issues.find(i => i.type === type), Null when there is none
RECURSIVE FindType(_, _, _)
FindType(issues, type, i) ==
    IF i > Len(issues) THEN Null
    ELSE IF issues[i].type = type THEN issues[i]
    ELSE FindType(issues, type, i + 1)

\* A variant that asks for the strategy only when all four fields are empty.
collectIssuesAllFieldsEmpty(strategy, financial_data, metrics) ==
    LET totalRevenue == SumField(financial_data, "revenue", Num(0), 0)
        totalCosts == SumCosts(financial_data, Num(0), 0)
    IN  (IF /\ strategy.problem_statement = <<>>
            /\ strategy.investment_type = ""
            /\ strategy.strategic_pillar = ""
            /\ strategy.stakeholders = <<>>
         THEN <<Issue("info", "complete-strategy")>> ELSE <<>>)
        \o (IF Lt(metrics.npv, Num(0))
            THEN <<Issue("error", "negative-npv")>> ELSE <<>>)
        \o (IF Gt(metrics.irr, Num(0)) /\ Lt(metrics.irr, metrics.hurdleRate)
            THEN <<Issue("warning", "irr-below-hurdle")>> ELSE <<>>)
        \o (IF Gt(totalCosts, totalRevenue)
            THEN <<Issue("error", "costs-exceed-revenue")>> ELSE <<>>)
        \o (IF ~strategy.signoff /\ Gt(totalRevenue, Num(0))
            THEN <<Issue("warning", "signoff-pending")>> ELSE <<>>)
        \o (IF Len(financial_data) = 0
            THEN <<Issue("info", "add-projections")>> ELSE <<>>)

\* A variant that also warns when the IRR is 0.
collectIssuesAtZeroToo(strategy, financial_data, metrics) ==
    LET totalRevenue == SumField(financial_data, "revenue", Num(0), 0)
        totalCosts == SumCosts(financial_data, Num(0), 0)
    IN  (IF \/ strategy.problem_statement = <<>>
            \/ strategy.investment_type = ""
            \/ strategy.strategic_pillar = ""
            \/ strategy.stakeholders = <<>>
         THEN <<Issue("info", "complete-strategy")>> ELSE <<>>)
        \o (IF Lt(metrics.npv, Num(0))
            THEN <<Issue("error", "negative-npv")>> ELSE <<>>)
        \o (IF Ge(metrics.irr, Num(0)) /\ Lt(metrics.irr, metrics.hurdleRate)
            THEN <<Issue("warning", "irr-below-hurdle")>> ELSE <<>>)
        \o (IF Gt(totalCosts, totalRevenue)
            THEN <<Issue("error", "costs-exceed-revenue")>> ELSE <<>>)
        \o (IF ~strategy.signoff /\ Gt(totalRevenue, Num(0))
            THEN <<Issue("warning", "signoff-pending")>> ELSE <<>>)
        \o (IF Len(financial_data) = 0
            THEN <<Issue("info", "add-projections")>> ELSE <<>>)

\* The issues in the order the checks push them.
collectIssues(strategy, financial_data, metrics) ==
    LET totalRevenue == SumField(financial_data, "revenue", Num(0), 0)
        totalCosts == SumCosts(financial_data, Num(0), 0)
    IN  (IF \/ strategy.problem_statement = <<>>
            \/ strategy.investment_type = ""
            \/ strategy.strategic_pillar = ""
            \/ strategy.stakeholders = <<>>
         THEN <<Issue("info", "complete-strategy")>> ELSE <<>>)
        \o (IF Lt(metrics.npv, Num(0))
            THEN <<Issue("error", "negative-npv")>> ELSE <<>>)
        \o (IF Gt(metrics.irr, Num(0)) /\ Lt(metrics.irr, metrics.hurdleRate)
            THEN <<Issue("warning", "irr-below-hurdle")>> ELSE <<>>)
        \o (IF Gt(totalCosts, totalRevenue)
            THEN <<Issue("error", "costs-exceed-revenue")>> ELSE <<>>)
        \o (IF ~strategy.signoff /\ Gt(totalRevenue, Num(0))
            THEN <<Issue("warning", "signoff-pending")>> ELSE <<>>)
        \o (IF Len(financial_data) = 0
            THEN <<Issue("info", "add-projections")>> ELSE <<>>)

showBanner(type, message) == [type |-> type, message |-> message, display |-> "flex"]

\* A variant that shows the first issue collected.
runCommercialAgentCheckFirstIssue(strategy, financial_data, metrics) ==
    LET issues == collectIssues(strategy, financial_data, metrics)
    IN  IF Len(issues) > 0 THEN showBanner(issues[1].type, issues[1].message)
        ELSE showBanner("success", "complete-and-viable")

runCommercialAgentCheck(strategy, financial_data, metrics) ==
    LET issues == collectIssues(strategy, financial_data, metrics)
        errorIssue == FindType(issues, "error", 1)
        warningIssue == FindType(issues, "warning", 1)
        infoIssue == FindType(issues, "info", 1)
        issue == IF ~IsNull(errorIssue) THEN errorIssue
                 ELSE IF ~IsNull(warningIssue) THEN warningIssue
                 ELSE infoIssue
    IN  IF Len(issues) > 0 THEN showBanner(issue.type, issue.message)
        ELSE showBanner("success", "complete-and-viable")

(***************************************************************************)
(* The Strategy Validator: validateStrategyForm and handleSignOff.  The    *)
(* two text inputs hold sequences of characters, the two selects an option *)
(* value.                                                                  *)
(***************************************************************************)
\* String.prototype.trim on a sequence of characters
RECURSIVE TrimLeft(_)
TrimLeft(text) ==
    IF text # <<>> /\ Head(text) = " " THEN TrimLeft(Tail(text)) ELSE text

RECURSIVE TrimRight(_)
TrimRight(text) ==
    IF text # <<>> /\ text[Len(text)] = " "
    THEN TrimRight(SubSeq(text, 1, Len(text) - 1))
    ELSE text

Trim(text) == TrimRight(TrimLeft(text))

\* A variant that disables the checkbox of an incomplete form but leaves the
\* sign-off it already holds.
validateStrategyFormKeepSignoff(strategy, inputs) ==
    LET updated == [strategy EXCEPT
                        !.problem_statement = Trim(inputs.problem_statement_input),
                        !.investment_type = inputs.investment_type_select,
                        !.strategic_pillar = inputs.strategic_pillar_select,
                        !.stakeholders = Trim(inputs.stakeholders_input)]
        isValid == /\ updated.problem_statement # <<>>
                   /\ updated.investment_type # ""
                   /\ updated.strategic_pillar # ""
                   /\ updated.stakeholders # <<>>
    IN  [strategy |-> updated,
         inputs |-> [inputs EXCEPT !.signoff_disabled = ~isValid],
         isValid |-> isValid]

\* validateStrategyForm: the strategy and the inputs it leaves, and the value
\* it returns.
validateStrategyForm(strategy, inputs) ==
    LET problemStatement == Trim(inputs.problem_statement_input)
        investmentType == inputs.investment_type_select
        strategicPillar == inputs.strategic_pillar_select
        stakeholders == Trim(inputs.stakeholders_input)
        updated == [strategy EXCEPT !.problem_statement = problemStatement,
                                    !.investment_type = investmentType,
                                    !.strategic_pillar = strategicPillar,
                                    !.stakeholders = stakeholders]
        isValid == /\ problemStatement # <<>>
                   /\ investmentType # ""
                   /\ strategicPillar # ""
                   /\ stakeholders # <<>>
    IN  IF isValid
        THEN [strategy |-> updated,
              inputs |-> [inputs EXCEPT !.signoff_disabled = FALSE],
              isValid |-> TRUE]
        ELSE [strategy |-> [updated EXCEPT !.signoff = FALSE],
              inputs |-> [inputs EXCEPT !.signoff_disabled = TRUE,
                                        !.signoff_checked = FALSE],
              isValid |-> FALSE]

\* handleSignOff: the strategy after the change event of the checkbox.
handleSignOffStrategy(strategy, inputs) ==
    [strategy EXCEPT !.signoff = inputs.signoff_checked]

\* handleSignOff: the banners it shows, in order: the sign-off banner when the
\* checkbox is checked, then the banner of runCommercialAgentCheck.
handleSignOffBanners(strategy, inputs, financial_data, metrics) ==
    (IF inputs.signoff_checked
     THEN <<showBanner("success", "signoff-complete")>> ELSE <<>>)
        \o <<runCommercialAgentCheck(handleSignOffStrategy(strategy, inputs),
                                     financial_data, metrics)>>

\* The banner element after the banners were shown one after the other.
LastShown(banners) == banners[Len(banners)]

(***************************************************************************)
(* The state of the vanilla-JS application.                                *)
(***************************************************************************)
VARIABLES
    financial_data,     \* state.businessCase.financial_data
    strategy,           \* state.businessCase.strategy
    financialMetrics,   \* state.financialMetrics
    dom,                \* the inputs the handlers read: strategy form, settings
    banner,             \* the commercial-agent banner
    nEdits              \* numeric inputs (grid cells, settings) changed so far

appVars == <<financial_data, strategy, financialMetrics, dom, banner, nEdits>>

\* The bounds of the model.
MaxEdits == 1

Row(year, revenue, costs, gross_profit, operating_expenses, ebitda, depreciation,
    ebit, interest, taxes, net_income) ==
    [year |-> year, revenue |-> revenue, costs |-> costs,
     gross_profit |-> gross_profit, operating_expenses |-> operating_expenses,
     ebitda |-> ebitda, depreciation |-> depreciation, ebit |-> ebit,
     interest |-> interest, taxes |-> taxes, net_income |-> net_income]

\* A row of the literal of state.businessCase.financial_data.
FRow(year, revenue, costs, gross_profit, operating_expenses, ebitda, depreciation,
     ebit, interest, taxes, net_income) ==
    Row(year, Num(revenue), Num(costs), Num(gross_profit), Num(operating_expenses),
        Num(ebitda), Num(depreciation), Num(ebit), Num(interest), Num(taxes),
        Num(net_income))

defaultFinancialData ==
    << FRow(2024, 1000000, 600000, 400000, 200000, 200000, 50000, 150000, 20000, 32500, 97500),
       FRow(2025, 1200000, 700000, 500000, 230000, 270000, 55000, 215000, 18000, 49250, 147750),
       FRow(2026, 1500000, 850000, 650000, 280000, 370000, 60000, 310000, 15000, 73750, 221250),
       FRow(2027, 1800000, 1000000, 800000, 320000, 480000, 65000, 415000, 12000, 100750, 302250),
       FRow(2028, 2200000, 1200000, 1000000, 380000, 620000, 70000, 550000, 10000, 135000, 405000) >>

defaultStrategy ==
    [problem_statement |-> <<>>, investment_type |-> "", strategic_pillar |-> "",
     stakeholders |-> <<>>, signoff |-> FALSE]

\* The inputs as resetBusinessCase sets them.
defaultInputs ==
    [problem_statement_input |-> <<>>,
     investment_type_select |-> "",
     strategic_pillar_select |-> "",
     stakeholders_input |-> <<>>,
     signoff_checked |-> FALSE,
     signoff_disabled |-> TRUE,
     inflation_rate_input |-> <<"3">>,
     hurdle_rate_input |-> <<"1", "0">>,
     initial_investment_input |-> <<"5", "0", "0", "0", "0", "0">>]

EditableFields == {"revenue", "costs", "operating_expenses", "depreciation", "interest"}

\* The cells the user edits, <<rowIndex, field>>, and what the user may type
\* into one.
EditedCells == { <<0, "revenue">>, <<1, "costs">>, <<4, "operating_expenses">>,
                 <<2, "depreciation">>, <<3, "interest">> }

CellTexts == { <<>>, <<"3", "0", "0", "0", "0", "0", "0">> }

ProblemTexts == { <<>>, <<" ", "p">> }

StakeholderTexts == { <<" ">>, <<"c", " ">> }

InvestmentTypes == {"", "growth"}

StrategicPillars == {"", "innovation"}

SettingsTexts ==
    [inflation_rate_input |-> { <<"0">> },
     hurdle_rate_input |-> { <<"5", "0">> },
     initial_investment_input |-> { <<>>, <<"2", "0", "0", "0", "0", "0", "0">> }]

\* A variant that stores the cell and does not recompute the derived fields.
handleDataChangeStoreOnly(data, rowIndex, field, text) ==
    [data EXCEPT ![rowIndex + 1][field] = parseFloatOrZero(text)]

\* handleDataChange: the financial data after the change event of a cell.
handleDataChange(data, rowIndex, field, text) ==
    calculateDerivedFields([data EXCEPT ![rowIndex + 1][field] = parseFloatOrZero(text)])

(***************************************************************************)
(* The handlers of the application as actions.  An input event and the     *)
(* handler bound to it are one step.                                       *)
(***************************************************************************)
\* The state the DOMContentLoaded handler leaves: the literal of `state`,
\* the form validated, the metrics computed and the banner shown.
LoadedStrategy == validateStrategyForm(defaultStrategy, defaultInputs).strategy

LoadedInputs == validateStrategyForm(defaultStrategy, defaultInputs).inputs

LoadedMetrics == updateFinancialMetrics(defaultFinancialData, LoadedInputs)

AppInit ==
    /\ financial_data = defaultFinancialData
    /\ strategy = LoadedStrategy
    /\ dom = LoadedInputs
    /\ financialMetrics = LoadedMetrics
    /\ banner = runCommercialAgentCheck(LoadedStrategy, defaultFinancialData, LoadedMetrics)
    /\ nEdits = 0

\* onchange of a cell of the financial grid
HandleDataChange ==
    /\ nEdits < MaxEdits
    /\ \E cell \in EditedCells, text \in CellTexts :
          /\ cell[1] < Len(financial_data)
          /\ cell[2] \in EditableFields
          /\ financial_data' = handleDataChange(financial_data, cell[1], cell[2], text)
    /\ nEdits' = nEdits + 1
    /\ UNCHANGED <<strategy, financialMetrics, dom, banner>>

\* The form validated after the inputs changed to `inputs`.
Validated(inputs) ==
    LET v == validateStrategyForm(strategy, inputs)
    IN  /\ strategy' = v.strategy
        /\ dom' = v.inputs
        /\ banner' = runCommercialAgentCheck(v.strategy, financial_data, financialMetrics)
        /\ UNCHANGED <<financial_data, financialMetrics, nEdits>>

\* input event of the problem statement or the stakeholders field
EditStrategyText ==
    \/ \E text \in ProblemTexts :
          Validated([dom EXCEPT !.problem_statement_input = text])
    \/ \E text \in StakeholderTexts :
          Validated([dom EXCEPT !.stakeholders_input = text])

\* change event of the investment type or the strategic pillar select
SelectStrategyOption ==
    \/ \E option \in InvestmentTypes :
          Validated([dom EXCEPT !.investment_type_select = option])
    \/ \E option \in StrategicPillars :
          Validated([dom EXCEPT !.strategic_pillar_select = option])

\* change event of the sign-off checkbox: a disabled checkbox fires none
HandleSignOff ==
    /\ ~dom.signoff_disabled
    /\ dom' = [dom EXCEPT !.signoff_checked = ~@]
    /\ strategy' = handleSignOffStrategy(strategy, dom')
    /\ banner' = LastShown(handleSignOffBanners(strategy, dom', financial_data,
                                                financialMetrics))
    /\ UNCHANGED <<financial_data, financialMetrics, nEdits>>

\* the settings inputs of the Financial Modeling tab: change event, handled
\* by updateFinancialMetrics
ChangeSetting ==
    /\ nEdits < MaxEdits
    /\ \E field \in DOMAIN SettingsTexts : \E text \in SettingsTexts[field] :
          dom' = [dom EXCEPT ![field] = text]
    /\ financialMetrics' = updateFinancialMetrics(financial_data, dom')
    /\ banner' = runCommercialAgentCheck(strategy, financial_data, financialMetrics')
    /\ nEdits' = nEdits + 1
    /\ UNCHANGED <<financial_data, strategy>>

SwitchMainTab ==
    \E tabName \in {"strategy", "financial", "canvas"} :
        IF tabName = "financial"
        THEN /\ financialMetrics' = updateFinancialMetrics(financial_data, dom)
             /\ banner' = runCommercialAgentCheck(strategy, financial_data,
                                                  financialMetrics')
             /\ UNCHANGED <<financial_data, strategy, dom, nEdits>>
        ELSE UNCHANGED appVars

\* the inputs after resetBusinessCase wrote them, the other inputs kept
resetInputs(inputs) ==
    [inputs EXCEPT !.problem_statement_input = <<>>,
                   !.investment_type_select = "",
                   !.strategic_pillar_select = "",
                   !.stakeholders_input = <<>>,
                   !.signoff_checked = FALSE,
                   !.inflation_rate_input = <<"3">>,
                   !.hurdle_rate_input = <<"1", "0">>,
                   !.initial_investment_input = <<"5", "0", "0", "0", "0", "0">>]

ResetBusinessCase ==
    LET v == validateStrategyForm(defaultStrategy, resetInputs(dom))
    IN  /\ financial_data' = defaultFinancialData
        /\ strategy' = v.strategy
        /\ dom' = v.inputs
        /\ financialMetrics' = updateFinancialMetrics(defaultFinancialData, v.inputs)
        /\ banner' = runCommercialAgentCheck(v.strategy, defaultFinancialData,
                                             financialMetrics')
        /\ UNCHANGED nEdits

AppNext ==
    \/ HandleDataChange
    \/ EditStrategyText
    \/ SelectStrategyOption
    \/ HandleSignOff
    \/ ChangeSetting
    \/ SwitchMainTab
    \/ ResetBusinessCase

(***************************************************************************)
(* The React store (frontend/src/store/businessCaseStore.ts).  The store   *)
(* is one record; `set` merges a partial state into it.  Amounts are exact *)
(* numbers, strings are strings, and the bullet character of the slide     *)
(* texts is written "*".                                                   *)
(***************************************************************************)
VARIABLE store

\* A row of the literal in exact representation.
QRow(year, revenue, costs, gross_profit, operating_expenses, ebitda, depreciation,
     ebit, interest, taxes, net_income) ==
    Row(year, Whole(revenue), Whole(costs), Whole(gross_profit), Whole(operating_expenses),
        Whole(ebitda), Whole(depreciation), Whole(ebit), Whole(interest), Whole(taxes),
        Whole(net_income))

\* financial_data.reduce((sum, fd) => sum + fd[field], 0), from row i on
RECURSIVE reduceSum(_, _, _, _)
reduceSum(data, field, sum, i) ==
    IF i < Len(data) THEN reduceSum(data, field, QAdd(sum, data[i + 1][field]), i + 1)
    ELSE sum

\* defaultFinancialData of the store
storeDefaultFinancialData ==
    << QRow(2024, 1000000, 600000, 400000, 200000, 200000, 50000, 150000, 20000, 32500, 97500),
       QRow(2025, 1200000, 700000, 500000, 230000, 270000, 55000, 215000, 18000, 49250, 147750),
       QRow(2026, 1500000, 850000, 650000, 280000, 370000, 60000, 310000, 15000, 73750, 221250),
       QRow(2027, 1800000, 1000000, 800000, 320000, 480000, 65000, 415000, 12000, 100750, 302250),
       QRow(2028, 2200000, 1200000, 1000000, 380000, 620000, 70000, 550000, 10000, 135000, 405000) >>

\* A value of the assumptions record is a string or a number.
Str(s) == [str |-> s]

NumVal(q) == [num |-> q]

\* The assumptions as the list of their entries, in insertion order.
defaultBusinessCase ==
    [project_name |-> "New Business Initiative",
     description |-> "Business Case Analysis for Strategic Growth",
     financial_data |-> storeDefaultFinancialData,
     assumptions |-> << <<"Revenue Growth Rate", Str("20%")>>,
                        <<"Cost Escalation", Str("15%")>>,
                        <<"Tax Rate", Str("25%")>>,
                        <<"Discount Rate", Str("10%")>> >>]

\* Number.prototype.toString of an integer or a non-finite number.
numberToString(q) ==
    CASE q.d = 1 -> ToString(q.n)
      [] q.d = 0 /\ q.n = 0 -> "NaN"
      [] q.d = 0 /\ q.n > 0 -> "Infinity"
      [] q.d = 0 /\ q.n < 0 -> "-Infinity"

\* The digits of k >= 0 in groups of three separated by commas.
RECURSIVE GroupDigits(_)
GroupDigits(k) ==
    IF k < 1000 THEN ToString(k)
    ELSE LET low == k % 1000
         IN  GroupDigits(k \div 1000) \o ","
                \o (IF low < 10 THEN "00" ELSE IF low < 100 THEN "0" ELSE "")
                \o ToString(low)

\* The fraction digits of thousandths/1000 without trailing zeros.
FractionDigits(thousandths) ==
    IF thousandths = 0 THEN ""
    ELSE "." \o (IF thousandths < 10 THEN "00" ELSE IF thousandths < 100 THEN "0" ELSE "")
             \o (IF thousandths % 100 = 0 THEN ToString(thousandths \div 100)
                 ELSE IF thousandths % 10 = 0 THEN ToString(thousandths \div 10)
                 ELSE ToString(thousandths))

\* Number.prototype.toLocaleString() in the en-US locale: grouped integer
\* digits and at most three fraction digits, rounded half away from zero
\* (the infinity sign is written "oo").
toLocaleString(q) ==
    IF q.d = 0 THEN (IF q.n = 0 THEN "NaN" ELSE IF q.n > 0 THEN "oo" ELSE "-oo")
    ELSE LET whole       == Abs(q.n) \div q.d
             thousandths == RoundDiv((Abs(q.n) % q.d) * 1000, q.d)
             carried     == IF thousandths = 1000 THEN whole + 1 ELSE whole
             fraction    == IF thousandths = 1000 THEN 0 ELSE thousandths
         IN  (IF q.n < 0 THEN "-" ELSE "")
                \o GroupDigits(carried) \o FractionDigits(fraction)

\* financial_data.map(fd => fd[field]), and the years as strings
RECURSIVE MapField(_, _)
MapField(data, field) ==
    IF data = <<>> THEN <<>>
    ELSE <<Head(data)[field]>> \o MapField(Tail(data), field)

RECURSIVE MapYears(_)
MapYears(data) ==
    IF data = <<>> THEN <<>>
    ELSE <<ToString(Head(data).year)>> \o MapYears(Tail(data))

\* Object.entries(assumptions).map(([k, v]) => `* ${k}: ${v}`).join('\n')
RECURSIVE JoinAssumptions(_)
JoinAssumptions(entries) ==
    IF entries = <<>> THEN ""
    ELSE LET k == Head(entries)[1]
             v == Head(entries)[2]
             line == "* " \o k \o ": "
                       \o (IF "str" \in DOMAIN v THEN v.str ELSE numberToString(v.num))
         IN  IF Tail(entries) = <<>> THEN line
             ELSE line \o "\n" \o JoinAssumptions(Tail(entries))

Dataset(label, data, backgroundColor, borderColor, borderWidth) ==
    [label |-> label, data |-> data, backgroundColor |-> backgroundColor,
     borderColor |-> borderColor, borderWidth |-> borderWidth]

ContentSlide(id, title, type, content) ==
    [id |-> id, title |-> title, type |-> type, content |-> content]

\* A variant that labels every chart with the years of the default data.
ChartSlideDefaultYears(id, title, chartType, labels, datasets) ==
    [id |-> id, title |-> title, type |-> "chart", chartType |-> chartType,
     chartData |-> [labels |-> <<"2024", "2025", "2026", "2027", "2028">>,
                    datasets |-> datasets]]

ChartSlide(id, title, chartType, labels, datasets) ==
    [id |-> id, title |-> title, type |-> "chart", chartType |-> chartType,
     chartData |-> [labels |-> labels, datasets |-> datasets]]

\* Generate slides from business case data
generateSlides(businessCase) ==
    LET years == MapYears(businessCase.financial_data)
        data(field) == MapField(businessCase.financial_data, field)
    IN  << ContentSlide(1, businessCase.project_name, "title", businessCase.description),
           ContentSlide(2, "Executive Summary", "content",
               "* Project overview and objectives\n* Key financial highlights\n* Strategic alignment"),
           ChartSlide(3, "Revenue Projection", "bar", years,
               << Dataset("Revenue", data("revenue"),
                          "rgba(54, 162, 235, 0.6)", "rgba(54, 162, 235, 1)", 1) >>),
           ChartSlide(4, "Cost Analysis", "bar", years,
               << Dataset("Direct Costs", data("costs"),
                          "rgba(255, 99, 132, 0.6)", "rgba(255, 99, 132, 1)", 1),
                  Dataset("Operating Expenses", data("operating_expenses"),
                          "rgba(255, 159, 64, 0.6)", "rgba(255, 159, 64, 1)", 1) >>),
           ChartSlide(5, "Profitability Analysis", "line", years,
               << Dataset("Gross Profit", data("gross_profit"),
                          "rgba(75, 192, 192, 0.6)", "rgba(75, 192, 192, 1)", 2),
                  Dataset("EBITDA", data("ebitda"),
                          "rgba(153, 102, 255, 0.6)", "rgba(153, 102, 255, 1)", 2) >>),
           ChartSlide(6, "Net Income Projection", "bar", years,
               << Dataset("Net Income", data("net_income"),
                          "rgba(46, 204, 113, 0.6)", "rgba(46, 204, 113, 1)", 1) >>),
           ContentSlide(7, "Key Assumptions", "content",
               JoinAssumptions(businessCase.assumptions)),
           ContentSlide(8, "Risk Analysis", "content",
               "* Market risks\n* Operational risks\n* Financial risks\n* Mitigation strategies"),
           ContentSlide(9, "Implementation Timeline", "content",
               "* Phase 1: Planning and Setup\n* Phase 2: Implementation\n* Phase 3: Optimization\n* Phase 4: Scale"),
           ContentSlide(10, "Resource Requirements", "content",
               "* Personnel needs\n* Technology infrastructure\n* Capital requirements\n* Training needs"),
           ContentSlide(11, "Financial Summary", "content",
               "* Total Revenue (5-year): $"
                  \o toLocaleString(reduceSum(businessCase.financial_data, "revenue",
                                             Whole(0), 0))
                  \o "\n* Total Net Income: $"
                  \o toLocaleString(reduceSum(businessCase.financial_data, "net_income",
                                             Whole(0), 0))
                  \o "\n* ROI Analysis"),
           ContentSlide(12, "Conclusion & Recommendations", "content",
               "* Strategic alignment confirmed\n* Financial viability established\n* Recommended next steps") >>

\* generateSlides throws a TypeError on a row without a year
\* (undefined.toString()).
generateSlidesThrows(businessCase) ==
    \E i \in DOMAIN businessCase.financial_data :
        "year" \notin DOMAIN businessCase.financial_data[i]

\* zustand's set: the partial state merged into the state
set(state, partial) ==
    [k \in DOMAIN state |-> IF k \in DOMAIN partial THEN partial[k] ELSE state[k]]

\* { ...row, ...data }; the row is undefined beyond the end of the array
Spread(row, data) ==
    [f \in DOMAIN row \cup DOMAIN data |-> IF f \in DOMAIN data THEN data[f] ELSE row[f]]

\* financialData[index] = ...: an index beyond the end extends the array
\* (the holes it may leave are skipped by map and reduce)
AssignIndex(financialData, index, row) ==
    IF index < Len(financialData) THEN [financialData EXCEPT ![index + 1] = row]
    ELSE Append(financialData, row)

initialStore ==
    [businessCase |-> defaultBusinessCase,
     auditResults |-> Null,
     slides |-> generateSlides(defaultBusinessCase),
     isLoading |-> FALSE,
     isAuditing |-> FALSE,
     isExporting |-> FALSE]

setBusinessCase(state, data) ==
    set(state, [businessCase |-> data, slides |-> generateSlides(data)])

updateFinancialData(state, data) ==
    LET newBusinessCase == [state.businessCase EXCEPT !.financial_data = data]
    IN  set(state, [businessCase |-> newBusinessCase,
                    slides |-> generateSlides(newBusinessCase)])

updateSingleRow(state, index, data) ==
    LET current == state.businessCase.financial_data
        financialData ==
            AssignIndex(current, index,
                        Spread(IF index < Len(current) THEN current[index + 1]
                               ELSE <<>>, data))
        newBusinessCase == [state.businessCase EXCEPT !.financial_data = financialData]
    IN  IF generateSlidesThrows(newBusinessCase) THEN state
        ELSE set(state, [businessCase |-> newBusinessCase,
                         slides |-> generateSlides(newBusinessCase)])

\* A variant that keeps the slides it has.
setProjectNameKeepSlides(state, name) ==
    set(state, [businessCase |-> [state.businessCase EXCEPT !.project_name = name]])

setProjectName(state, name) ==
    LET newBusinessCase == [state.businessCase EXCEPT !.project_name = name]
    IN  set(state, [businessCase |-> newBusinessCase,
                    slides |-> generateSlides(newBusinessCase)])

setDescription(state, description) ==
    LET newBusinessCase == [state.businessCase EXCEPT !.description = description]
    IN  set(state, [businessCase |-> newBusinessCase,
                    slides |-> generateSlides(newBusinessCase)])

setAssumptions(state, assumptions) ==
    LET newBusinessCase == [state.businessCase EXCEPT !.assumptions = assumptions]
    IN  set(state, [businessCase |-> newBusinessCase,
                    slides |-> generateSlides(newBusinessCase)])

setAuditResults(state, results) == set(state, [auditResults |-> results])

setLoading(state, loading) == set(state, [isLoading |-> loading])

setAuditing(state, auditing) == set(state, [isAuditing |-> auditing])

setExporting(state, exporting) == set(state, [isExporting |-> exporting])

storeResetBusinessCase(state) ==
    set(state, [businessCase |-> defaultBusinessCase,
                slides |-> generateSlides(defaultBusinessCase),
                auditResults |-> Null])

\* The bound of the store model: updateSingleRow patches the rows 0..MaxRowIndex
\* and the index one past the end of the array.
MaxRowIndex == 1

\* What the callers may pass to the actions.
StoreNames == {"Alpha"}

StoreDescriptions == {"Pilot"}

StoreAssumptions ==
    { << <<"Tax Rate", NumVal(Whole(25))>>, <<"Note", Str("n/a")>> >> }

StoreDataSets ==
    { <<>>,
      << QRow(2030, 1500, 500, 1000, 200, 800, 100, 700, 100, 150, 450) >> }

StoreCases ==
    { [project_name |-> "Beta", description |-> "",
       financial_data |-> << QRow(2031, 999, 0, 999, 0, 999, 0, 999, 0, 0, 999) >>,
       assumptions |-> <<>>] }

RowPatches == { [revenue |-> Whole(1234567), net_income |-> Whole(-1500)] }

AuditResponses ==
    { Null,
      [status |-> "success", findings |-> <<>>, suggestions |-> <<>>, risk_score |-> 0] }

(***************************************************************************)
(* The actions of the store.                                               *)
(***************************************************************************)
StoreInit == store = initialStore

SetBusinessCase == \E data \in StoreCases : store' = setBusinessCase(store, data)

UpdateFinancialData ==
    \E data \in StoreDataSets : store' = updateFinancialData(store, data)

UpdateSingleRow ==
    \E index \in (0..MaxRowIndex) \cup {Len(store.businessCase.financial_data)},
       data \in RowPatches :
        store' = updateSingleRow(store, index, data)

SetProjectName == \E name \in StoreNames : store' = setProjectName(store, name)

SetDescription ==
    \E description \in StoreDescriptions : store' = setDescription(store, description)

SetAssumptions ==
    \E assumptions \in StoreAssumptions : store' = setAssumptions(store, assumptions)

SetAuditResults ==
    \E results \in AuditResponses : store' = setAuditResults(store, results)

SetLoading == \E loading \in BOOLEAN : store' = setLoading(store, loading)

SetAuditing == \E auditing \in BOOLEAN : store' = setAuditing(store, auditing)

SetExporting == \E exporting \in BOOLEAN : store' = setExporting(store, exporting)

StoreResetBusinessCase == store' = storeResetBusinessCase(store)

StoreNext ==
    \/ SetBusinessCase
    \/ UpdateFinancialData
    \/ UpdateSingleRow
    \/ SetProjectName
    \/ SetDescription
    \/ SetAssumptions
    \/ SetAuditResults
    \/ SetLoading
    \/ SetAuditing
    \/ SetExporting
    \/ StoreResetBusinessCase

(***************************************************************************)
(* The calculation engine called on its own: one call of calculateNPV,     *)
(* calculatePaybackPeriod, updateFinancialMetrics or                       *)
(* runSensitivityAnalysis with its arguments and what it computed.  The    *)
(* amounts and rates are small, so that the sums of a call carry no        *)
(* rounding error.                                                         *)
(***************************************************************************)
VARIABLE call

MaxFlows == 3

\* The cash flows, rates and investments of the calls.
FlowValues == { Num(-2), Num(0), Num(3) }

RECURSIVE FlowLists(_)
FlowLists(len) ==
    IF len = 0 THEN { <<>> }
    ELSE FlowLists(len - 1) \cup
         { Append(xs, x) : xs \in { l \in FlowLists(len - 1) : Len(l) = len - 1 },
                           x \in FlowValues }

DiscountRates == { Num(0), Num(1), Num(9), Q(-1, 2), Num(-1) }

Investments == { Num(0), Num(4), Num(-1) }

\* A row of the grid with its derived fields, from the five entered fields.
EnteredRow(year, revenue, costs, operating_expenses, depreciation, interest) ==
    calculateDerivedFields(
        << FRow(year, revenue, costs, 0, operating_expenses, 0, depreciation, 0,
                interest, 0, 0) >>)[1]

EngineDataSets ==
    { << EnteredRow(2024, 10, 0, 0, 0, 1) >>,
      << EnteredRow(2024, 100, 40, 20, 10, 2), EnteredRow(2025, 20, 50, 10, 4, 6) >>,
      << EnteredRow(2024, 0, 8, 0, 0, 0) >>,
      << EnteredRow(2024, 0, 0, 0, 0, 0), EnteredRow(2025, 0, 0, 0, 0, 0) >> }

\* The texts of the three settings inputs.
EngineInputs ==
    { [defaultInputs EXCEPT !.inflation_rate_input = inflation,
                            !.hurdle_rate_input = hurdle,
                            !.initial_investment_input = investment] :
        inflation \in { <<"0">>, <<"1", "0", "0">> },
        hurdle \in { <<"0">>, <<"5", "0">> },
        investment \in { <<>>, <<"0">>, <<"6">>, <<"-", "4">> } }

\* No call made yet; a behaviour makes one call, and runSensitivityAnalysis
\* follows the updateFinancialMetrics whose metrics it reads.
EngineInit == call = [fn |-> "none"]

CallCalculateNPV ==
    /\ call.fn = "none"
    /\ \E cashFlows \in FlowLists(MaxFlows), discountRate \in DiscountRates,
          initialInvestment \in Investments :
          call' = [fn |-> "calculateNPV", cashFlows |-> cashFlows,
                   discountRate |-> discountRate, initialInvestment |-> initialInvestment,
                   result |-> calculateNPV(cashFlows, discountRate, initialInvestment)]

CallCalculatePaybackPeriod ==
    /\ call.fn = "none"
    /\ \E cashFlows \in FlowLists(MaxFlows), initialInvestment \in Investments :
          call' = [fn |-> "calculatePaybackPeriod", cashFlows |-> cashFlows,
                   initialInvestment |-> initialInvestment,
                   result |-> calculatePaybackPeriod(cashFlows, initialInvestment)]

\* The cash flows calculateIRR is called with: lists of the flow values, and
\* a flow so small that the derivative at the initial guess is below 1e-10.
IRRFlowLists == FlowLists(MaxFlows) \cup { << [m |-> 100000, e |-> -17] >> }

CallCalculateIRR ==
    /\ call.fn = "none"
    /\ \E cashFlows \in IRRFlowLists, initialInvestment \in Investments :
          call' = [fn |-> "calculateIRR", cashFlows |-> cashFlows,
                   initialInvestment |-> initialInvestment,
                   result |-> calculateIRR(cashFlows, initialInvestment)]

CallUpdateFinancialMetrics ==
    /\ call.fn = "none"
    /\ \E data \in EngineDataSets, inputs \in EngineInputs :
          call' = [fn |-> "updateFinancialMetrics", financial_data |-> data,
                   inputs |-> inputs, result |-> updateFinancialMetrics(data, inputs)]

\* runSensitivityAnalysis reads the financial data and the metrics the last
\* updateFinancialMetrics stored.
CallRunSensitivityAnalysis ==
    /\ call.fn = "updateFinancialMetrics"
    /\ call' = [fn |-> "runSensitivityAnalysis", financial_data |-> call.financial_data,
                metrics |-> call.result,
                result |-> runSensitivityAnalysis(call.financial_data, call.result)]

EngineNext ==
    \/ CallCalculateNPV
    \/ CallCalculatePaybackPeriod
    \/ CallCalculateIRR
    \/ CallUpdateFinancialMetrics
    \/ CallRunSensitivityAnalysis

(***************************************************************************)
(* calculateIRR pass by pass: irrIn holds the arguments of the call and    *)
(* irrSt the state of the loop.                                            *)
(***************************************************************************)
VARIABLES irrIn, irrSt

\* -Infinity, the cash flow of a year whose inflated costs overflow
MinusInfinity == [m |-> -1, e |-> FTop]

\* Calls with a single cash flow.
SingleFlowCalls ==
    { [cashFlows |-> <<Num(121000)>>, initialInvestment |-> Num(109992)],
      [cashFlows |-> <<Num(150)>>, initialInvestment |-> Num(100)],
      [cashFlows |-> <<Num(2)>>, initialInvestment |-> Num(1)],
      [cashFlows |-> <<Num(-5)>>, initialInvestment |-> Num(10)],
      [cashFlows |-> <<Num(0)>>, initialInvestment |-> Num(5)] }

\* The cash flows of the default financial data at 3% inflation.
defaultCashFlows ==
    MapRows(defaultFinancialData, Q(3, 100), FALSE, <<>>, 0)

IRRCalls ==
    SingleFlowCalls \cup
    { [cashFlows |-> defaultCashFlows, initialInvestment |-> Num(500000)],
      [cashFlows |-> defaultCashFlows, initialInvestment |-> Num(0)],
      [cashFlows |-> <<Num(60), Num(-10), Num(70)>>, initialInvestment |-> Num(100)],
      [cashFlows |-> <<>>, initialInvestment |-> Num(100)],
      [cashFlows |-> <<Num(100), MinusInfinity>>, initialInvestment |-> Num(100)] }

IRRInit == irrIn \in IRRCalls /\ irrSt = IRRStart

SingleFlowInit == irrIn \in SingleFlowCalls /\ irrSt = IRRStart

\* One pass through the loop of calculateIRR, or its return.
IRRPass ==
    /\ irrSt.exit = "running"
    /\ irrSt' = IRRStep(irrIn.cashFlows, irrIn.initialInvestment, irrSt)
    /\ UNCHANGED irrIn

IRRNext == IRRPass

(***************************************************************************)
(* The React Data Deck (frontend/src/components/DataDeck.tsx):             *)
(* handleAfterChange on a batch of cell changes of the Handsontable grid.  *)
(* A change is <<row, prop, oldValue, newValue>>; a prop is a string       *)
(* Str(..) or a column number NumVal(..); a new value is a number, null or *)
(* a text [text |-> characters].  `call` records the last call: its        *)
(* arguments, the store it found and the rows it passed to                 *)
(* updateFinancialData (Null when it passed none).                         *)
(***************************************************************************)
QSub(a, b) == QAdd(a, QNeg(b))

\* Number(text): the decimal the whole text denotes, 0 for the empty text,
\* NaN otherwise
NumberOfText(text) ==
    LET neg   == Len(text) >= 1 /\ text[1] = "-"
        start == IF neg THEN 2 ELSE 1
        int   == ReadDigits(text, start, 0)
        dot   == int.next <= Len(text) /\ text[int.next] = "."
        frac  == IF dot THEN ReadDigits(text, int.next + 1, 0)
                 ELSE [value |-> 0, next |-> int.next]
        nfrac == IF dot THEN frac.next - (int.next + 1) ELSE 0
        mag   == QAdd(Whole(int.value), Ratio(frac.value, Pow10(nfrac)))
    IN  IF text = <<>> THEN Whole(0)
        ELSE IF frac.next # Len(text) + 1 \/ (int.next = start /\ nfrac = 0)
        THEN [n |-> 0, d |-> 0]
        ELSE IF neg THEN QNeg(mag) ELSE mag

\* Number(newValue)
NumberOf(newValue) ==
    IF IsNull(newValue) THEN Whole(0)
    ELSE IF "text" \in DOMAIN newValue THEN NumberOfText(newValue.text)
    ELSE newValue

\* Number(newValue) || 0
NumberOrZero(newValue) ==
    IF NumberOf(newValue).n = 0 THEN Whole(0) ELSE NumberOf(newValue)

\* A variant that takes the taxes from EBIT, before interest.
rowWithDerivedFieldsTaxOnEbit(row) ==
    [row EXCEPT !.gross_profit = QSub(row.revenue, row.costs),
                !.ebitda = QSub(QSub(row.revenue, row.costs), row.operating_expenses),
                !.ebit = QSub(QSub(QSub(row.revenue, row.costs), row.operating_expenses),
                              row.depreciation),
                !.taxes = QMul(QSub(QSub(QSub(row.revenue, row.costs),
                                         row.operating_expenses), row.depreciation),
                               Ratio(25, 100)),
                !.net_income =
                    QSub(QSub(QSub(QSub(QSub(row.revenue, row.costs),
                                        row.operating_expenses), row.depreciation),
                              row.interest),
                         QMul(QSub(QSub(QSub(row.revenue, row.costs),
                                        row.operating_expenses), row.depreciation),
                              Ratio(25, 100)))]

\* The callback of data.map in calculateDerivedFields of the Data Deck.
rowWithDerivedFields(row) ==
    LET gross_profit  == QSub(row.revenue, row.costs)
        ebitda        == QSub(gross_profit, row.operating_expenses)
        ebit          == QSub(ebitda, row.depreciation)
        pretax_income == QSub(ebit, row.interest)
        taxes         == QMul(pretax_income, Ratio(25, 100))
        net_income    == QSub(pretax_income, taxes)
    IN  [row EXCEPT !.gross_profit = gross_profit,
                    !.ebitda = ebitda,
                    !.ebit = ebit,
                    !.taxes = taxes,
                    !.net_income = net_income]

\* calculateDerivedFields of the Data Deck
deckCalculateDerivedFields(data) == [i \in DOMAIN data |-> rowWithDerivedFields(data[i])]

\* changes.forEach(...): the changes from the i-th on applied to newData
RECURSIVE applyChanges(_, _, _)
applyChanges(newData, changes, i) ==
    IF i > Len(changes) THEN newData
    ELSE IF "str" \in DOMAIN changes[i][2] /\ changes[i][1] < Len(newData)
    THEN applyChanges([newData EXCEPT ![changes[i][1] + 1] =
                           Spread(@, [f \in { changes[i][2].str } |->
                                          NumberOrZero(changes[i][4])])],
                      changes, i + 1)
    ELSE applyChanges(newData, changes, i + 1)

\* handleAfterChange: the arguments of the calls of updateFinancialData it
\* makes, none when it returns before; `changes` is Null or [list |-> batch]
handleAfterChange(financialData, changes, source) ==
    IF source = "loadData" \/ IsNull(changes) THEN <<>>
    ELSE << deckCalculateDerivedFields(applyChanges(financialData, changes.list, 1)) >>

\* The batches of changes of the grid.
ChangeBatches ==
    { <<>>,
      << <<0, Str("revenue"), Null, Whole(1234567)>> >>,
      << <<0, Str("costs"), Null, [text |-> <<"a", "b">>]>>,
         <<0, Str("gross_profit"), Null, Whole(5)>>,
         <<0, Str("interest"), Null, [text |-> <<"-", "2", ".", "5">>]>> >>,
      << <<1, Str("revenue"), Null, Whole(7)>>,
         <<5, Str("revenue"), Null, Whole(7)>>,
         <<0, Str("depreciation"), Null, Null>> >>,
      << <<0, NumVal(Whole(1)), Null, Whole(9)>>,
         <<0, Str("revenue"), Null, Whole(1)>>,
         <<0, Str("revenue"), Null, Whole(2)>> >> }

ChangeSources == { "edit", "CopyPaste.paste", "loadData" }

HandleAfterChange ==
    \E changes \in { Null } \cup { [list |-> batch] : batch \in ChangeBatches },
       source \in ChangeSources :
        LET passed == handleAfterChange(store.businessCase.financial_data, changes,
                                        source)
        IN  /\ call' = [fn |-> "handleAfterChange", changes |-> changes,
                        source |-> source, found |-> store, passed |-> passed]
            /\ store' = IF passed = <<>> THEN store
                        ELSE updateFinancialData(store, passed[1])

\* The store actions that replace rows of the financial data, between two
\* calls of handleAfterChange.
DeckStoreChange ==
    /\ UpdateFinancialData \/ UpdateSingleRow \/ StoreResetBusinessCase
    /\ call' = [fn |-> "none"]

DeckNext == HandleAfterChange \/ DeckStoreChange

(***************************************************************************)
(* runCommercialAgentCheck called on its own, after updateFinancialMetrics *)
(* computed the metrics: the strategy, the financial data and the metrics  *)
(* it reads, the issues it collected and the banner it showed.             *)
(***************************************************************************)
\* The strategies validateStrategyForm and handleSignOff leave: signed off
\* only with the four fields filled.
AgentStrategies ==
    { s \in [problem_statement : { <<>>, <<"p">> },
             investment_type : InvestmentTypes,
             strategic_pillar : StrategicPillars,
             stakeholders : { <<>>, <<"c">> },
             signoff : BOOLEAN] :
        s.signoff => /\ s.problem_statement # <<>>
                     /\ s.investment_type # ""
                     /\ s.strategic_pillar # ""
                     /\ s.stakeholders # <<>> }

\* The grid with 0 typed into every cell.
ZeroRows ==
    << EnteredRow(2024, 0, 0, 0, 0, 0), EnteredRow(2025, 0, 0, 0, 0, 0),
       EnteredRow(2026, 0, 0, 0, 0, 0), EnteredRow(2027, 0, 0, 0, 0, 0),
       EnteredRow(2028, 0, 0, 0, 0, 0) >>

\* Financial data: the data of the engine calls, a year of zeros, a year
\* whose operating expenses exceed the revenue, and the grid of zeros.
AgentDataSets ==
    EngineDataSets \cup { << EnteredRow(2024, 0, 0, 0, 0, 0) >>,
                          << EnteredRow(2024, 10, 0, 15, 0, 0) >>,
                          ZeroRows }

\* The texts of the settings inputs: those of the engine calls, and a hurdle
\* rate of -100%, at which calculateNPV divides by 0.
AgentInputs ==
    EngineInputs \cup { [defaultInputs EXCEPT !.inflation_rate_input = <<"0">>,
                                              !.hurdle_rate_input = <<"-", "1", "0", "0">>,
                                              !.initial_investment_input = <<"0">>] }

AgentCall(s, data, metrics) ==
    [fn |-> "runCommercialAgentCheck",
     strategy |-> s,
     financial_data |-> data,
     metrics |-> metrics,
     issues |-> collectIssues(s, data, metrics),
     result |-> runCommercialAgentCheck(s, data, metrics)]

CallRunCommercialAgentCheck ==
    /\ call.fn = "none"
    /\ \E s \in AgentStrategies, data \in AgentDataSets, inputs \in AgentInputs :
          call' = AgentCall(s, data, updateFinancialMetrics(data, inputs))

AgentNext == CallRunCommercialAgentCheck

(***************************************************************************)
(* The canvas building blocks: fetchBuildingBlocks step by step.  call     *)
(* holds the position of the function and state.buildingBlocks.            *)
(***************************************************************************)
Block(name, pitch_step, description) ==
    [name |-> name, pitch_step |-> pitch_step, description |-> description]

getDefaultBuildingBlocks ==
    [executive_summary |->
         Block("Executive Summary", 1, "High-level overview of the business case"),
     problem_statement |->
         Block("Problem Statement", 1,
               "Define the problem or opportunity being addressed"),
     solution_overview |->
         Block("Solution Overview", 2, "Describe your proposed solution"),
     value_proposition |->
         Block("Value Proposition", 3, "Articulate the unique value and benefits"),
     market_opportunity |->
         Block("Market Opportunity", 4, "Define the market size and potential"),
     financial_projections |->
         Block("Financial Projections", 5, "Present financial forecasts and metrics"),
     risk_analysis |->
         Block("Risk Analysis", 5, "Identify and assess key risks"),
     implementation_plan |->
         Block("Implementation Plan", 6, "Outline the execution roadmap"),
     traction_validation |->
         Block("Traction & Validation", 6, "Show evidence and proof points"),
     team_resources |->
         Block("Team & Resources", 7, "Describe the team and resource requirements"),
     call_to_action |->
         Block("Ask & Next Steps", 7, "Define the specific request and next steps"),
     conclusion |->
         Block("Conclusion", 7, "Summary and recommendations")]

\* The block definitions GET /api/canvas/building-blocks may send: those of
\* the ids below, with the definitions the page has or with others.
ServerBlockIds ==
    {"executive_summary", "problem_statement", "solution_overview",
     "value_proposition", "market_opportunity", "conclusion"}

ServerBlockSets ==
    { [id \in ids |-> getDefaultBuildingBlocks[id]] : ids \in SUBSET ServerBlockIds }
        \cup { [id \in ids |-> Block("Custom", 9, "")] : ids \in SUBSET ServerBlockIds }

\* The bodies of an OK response.
ResponseBodies == { [building_blocks |-> blocks] : blocks \in ServerBlockSets }

\* A variant without the else branch of `if (response.ok)`.
buildingBlocksAfterNoFallback(buildingBlocks, outcome, data) ==
    CASE outcome = "ok" -> data.building_blocks
      [] outcome = "not-ok" -> buildingBlocks
      [] outcome = "exception" -> getDefaultBuildingBlocks

\* state.buildingBlocks once fetchBuildingBlocks settles: `outcome` is "ok"
\* (an OK response whose body `data` was parsed), "not-ok" or "exception".
buildingBlocksAfter(buildingBlocks, outcome, data) ==
    CASE outcome = "ok" -> data.building_blocks
      [] outcome = "not-ok" -> getDefaultBuildingBlocks
      [] outcome = "exception" -> getDefaultBuildingBlocks

Settled(outcome, data) ==
    [fn |-> "fetchBuildingBlocks", pc |-> "settled", outcome |-> outcome,
     buildingBlocks |-> buildingBlocksAfter(call.buildingBlocks, outcome, data)]

\* buildingBlocks: null of the state literal, the fetch on its way
FetchInit ==
    call = [fn |-> "fetchBuildingBlocks", pc |-> "fetch", buildingBlocks |-> Null]

\* await fetch(...) rejects
FetchRejects ==
    /\ call.fn = "fetchBuildingBlocks" /\ call.pc = "fetch"
    /\ call' = Settled("exception", Null)

\* await fetch(...) resolves with a response that is not OK
RespondNotOk ==
    /\ call.fn = "fetchBuildingBlocks" /\ call.pc = "fetch"
    /\ call' = Settled("not-ok", Null)

\* await fetch(...) resolves with an OK response
RespondOk ==
    /\ call.fn = "fetchBuildingBlocks" /\ call.pc = "fetch"
    /\ \E body \in ResponseBodies :
          call' = [fn |-> "fetchBuildingBlocks", pc |-> "json", body |-> body,
                   buildingBlocks |-> call.buildingBlocks]

\* await response.json() rejects: the body is not JSON
JsonRejects ==
    /\ call.fn = "fetchBuildingBlocks" /\ call.pc = "json"
    /\ call' = Settled("exception", Null)

\* await response.json() resolves
JsonResolves ==
    /\ call.fn = "fetchBuildingBlocks" /\ call.pc = "json"
    /\ call' = Settled("ok", call.body)

FetchNext ==
    \/ FetchRejects
    \/ RespondNotOk
    \/ RespondOk
    \/ JsonRejects
    \/ JsonResolves

(***************************************************************************)
(* The AI Auditor: an audit request and a reset of the business case, in   *)
(* the React application (AIAuditor on the store) and in the page of       *)
(* app.js.  call holds, for each of the two, the request in flight, tagged *)
(* "stale" once a reset happened after it started, and `cleared`: a reset  *)
(* happened and no audit started after it has completed.  For the page it  *)
(* also holds state.auditResults, the disabled flag of the button and what  *)
(* the audit panel shows; for AIAuditor, whether its error message is set. *)
(***************************************************************************)
\* What POST /api/ai/audit answers.
AuditReports ==
    { [status |-> "success", findings |-> <<>>, suggestions |-> <<>>, risk_score |-> 0],
      [status |-> "success", findings |-> <<"margin">>, suggestions |-> <<>>,
       risk_score |-> 1] }

AuditInit ==
    call = [fn |-> "audit",
            react |-> [request |-> "none", cleared |-> FALSE, error |-> FALSE],
            page |-> [auditResults |-> Null, disabled |-> FALSE, pc |-> "none",
                      request |-> "none", cleared |-> FALSE, shown |-> "empty"]]

\* The tag of the request after a reset.
Outdated(request) == IF request = "none" THEN "none" ELSE "stale"

\* `cleared` after the request completed with results.
ClearedAfter(side) == IF side.request = "fresh" THEN FALSE ELSE side.cleared

\* handleRunAudit up to its await; the button is disabled while isAuditing
HandleRunAudit ==
    /\ ~store.isAuditing
    /\ call.react.request = "none"
    /\ store' = setAuditing(store, TRUE)
    /\ call' = [call EXCEPT !.react.request = "fresh", !.react.error = FALSE]
    /\ UNCHANGED appVars

\* handleRunAudit after runAudit resolved: setAuditResults(results), and
\* setAuditing(false) of the finally block
HandleRunAuditResolved ==
    /\ call.react.request # "none"
    /\ \E results \in AuditReports :
          store' = setAuditing(setAuditResults(store, results), FALSE)
    /\ call' = [call EXCEPT !.react.request = "none",
                            !.react.cleared = ClearedAfter(call.react)]
    /\ UNCHANGED appVars

\* handleRunAudit after runAudit rejected: the catch and the finally block
HandleRunAuditRejected ==
    /\ call.react.request # "none"
    /\ store' = setAuditing(store, FALSE)
    /\ call' = [call EXCEPT !.react.request = "none", !.react.error = TRUE]
    /\ UNCHANGED appVars

\* the Reset button of the React application
AuditorReset ==
    /\ store' = storeResetBusinessCase(store)
    /\ call' = [call EXCEPT !.react.request = Outdated(call.react.request),
                            !.react.cleared = TRUE]
    /\ UNCHANGED appVars

\* runAudit of app.js up to `await fetch`
RunAudit ==
    /\ ~call.page.disabled
    /\ call.page.pc = "none"
    /\ call' = [call EXCEPT !.page.disabled = TRUE, !.page.pc = "fetch",
                            !.page.request = "fresh"]
    /\ UNCHANGED <<appVars, store>>

\* A variant that drops the results as it shows the message.
showAuditErrorClearing(page) == [page EXCEPT !.shown = "error", !.auditResults = Null]

\* showAuditError: the panel shows the message
showAuditError(page) == [page EXCEPT !.shown = "error"]

\* renderAuditResults: the empty state, or the results
renderAuditResults(page) ==
    [page EXCEPT !.shown = IF IsNull(page.auditResults) THEN "empty" ELSE "results"]

\* the finally block of runAudit
RunAuditFinally(page) == [page EXCEPT !.disabled = FALSE, !.pc = "none",
                                      !.request = "none"]

\* `await fetch` resolves: on an OK response runAudit awaits response.json(),
\* otherwise it shows the error
RunAuditResponse ==
    /\ call.page.pc = "fetch"
    /\ \E ok \in BOOLEAN :
          call' = [call EXCEPT !.page = IF ok THEN [@ EXCEPT !.pc = "json"]
                                        ELSE RunAuditFinally(showAuditError(@))]
    /\ UNCHANGED <<appVars, store>>

\* `await response.json()` resolves: state.auditResults = ...
RunAuditParsed ==
    /\ call.page.pc = "json"
    /\ \E results \in AuditReports :
          call' = [call EXCEPT !.page =
                       RunAuditFinally(renderAuditResults(
                           [@ EXCEPT !.auditResults = results,
                                     !.cleared = ClearedAfter(call.page)]))]
    /\ UNCHANGED <<appVars, store>>

\* `await fetch` or `await response.json()` rejects: the catch block
RunAuditRejected ==
    /\ call.page.pc \in {"fetch", "json"}
    /\ call' = [call EXCEPT !.page = RunAuditFinally(showAuditError(@))]
    /\ UNCHANGED <<appVars, store>>

\* resetBusinessCase of app.js
PageReset ==
    /\ ResetBusinessCase
    /\ call' = [call EXCEPT !.page = renderAuditResults(
                                [@ EXCEPT !.auditResults = Null,
                                          !.request = Outdated(call.page.request),
                                          !.cleared = TRUE])]
    /\ UNCHANGED store

AuditNext ==
    \/ HandleRunAudit
    \/ HandleRunAuditResolved
    \/ HandleRunAuditRejected
    \/ AuditorReset
    \/ RunAudit
    \/ RunAuditResponse
    \/ RunAuditParsed
    \/ RunAuditRejected
    \/ PageReset

(***************************************************************************)
(* The specifications.  Each leaves the state of the other parts as it is. *)
(***************************************************************************)
vars == <<appVars, store, call, irrIn, irrSt>>

AppIdle ==
    /\ financial_data = defaultFinancialData
    /\ strategy = defaultStrategy
    /\ financialMetrics = Null
    /\ dom = defaultInputs
    /\ banner = Null
    /\ nEdits = 0

IRRIdle == irrIn = Null /\ irrSt = Null

\* The vanilla-JS application.
Init == AppInit /\ StoreInit /\ EngineInit /\ IRRIdle

Next == AppNext /\ UNCHANGED <<store, call, irrIn, irrSt>>

Spec == Init /\ [][Next]_vars

\* The React store.
StoreSpecInit == StoreInit /\ AppIdle /\ EngineInit /\ IRRIdle

StoreSpecNext == StoreNext /\ UNCHANGED <<appVars, call, irrIn, irrSt>>

StoreSpec == StoreSpecInit /\ [][StoreSpecNext]_vars

\* Calls of the calculation engine.
EngineSpecInit == EngineInit /\ AppIdle /\ StoreInit /\ IRRIdle

EngineSpecNext == EngineNext /\ UNCHANGED <<appVars, store, irrIn, irrSt>>

EngineSpec == EngineSpecInit /\ [][EngineSpecNext]_vars

\* calculateIRR pass by pass, on every call and on the single-flow calls.
IRRSpecInit == IRRInit /\ AppIdle /\ StoreInit /\ EngineInit

IRRSpecNext == IRRNext /\ UNCHANGED <<appVars, store, call>>

IRRSpec == IRRSpecInit /\ [][IRRSpecNext]_vars

SingleFlowSpecInit == SingleFlowInit /\ AppIdle /\ StoreInit /\ EngineInit

SingleFlowSpec == SingleFlowSpecInit /\ [][IRRSpecNext]_vars

\* Calls of runCommercialAgentCheck.
AgentSpecInit == EngineInit /\ AppIdle /\ StoreInit /\ IRRIdle

AgentSpecNext == AgentNext /\ UNCHANGED <<appVars, store, irrIn, irrSt>>

AgentSpec == AgentSpecInit /\ [][AgentSpecNext]_vars

\* The Data Deck on the store.
DeckSpecInit == StoreInit /\ AppIdle /\ EngineInit /\ IRRIdle

DeckSpecNext == DeckNext /\ UNCHANGED <<appVars, irrIn, irrSt>>

DeckSpec == DeckSpecInit /\ [][DeckSpecNext]_vars

\* fetchBuildingBlocks of the page load.
FetchSpecInit == FetchInit /\ AppIdle /\ StoreInit /\ IRRIdle

FetchSpecNext == FetchNext /\ UNCHANGED <<appVars, store, irrIn, irrSt>>

FetchSpec == FetchSpecInit /\ [][FetchSpecNext]_vars

\* Audits and resets, in the React application and in the page.
AuditSpecInit == AuditInit /\ AppInit /\ StoreInit /\ IRRIdle

AuditSpecNext == AuditNext /\ UNCHANGED <<irrIn, irrSt>>

AuditSpec == AuditSpecInit /\ [][AuditSpecNext]_vars

(***************************************************************************)
(* The financial data model (README, "Financial Data Model").              *)
(***************************************************************************)
\* C1: in every state reached from the initial load by handleDataChange
\* edits and resetBusinessCase, every row of financial_data has
\* gross_profit = revenue - costs, ebitda = gross_profit - operating_expenses
\* and ebit = ebitda - depreciation.
C1_DerivedFieldsHold ==
    \A i \in DOMAIN financial_data :
        LET row == financial_data[i]
        IN  /\ row.gross_profit = Sub(row.revenue, row.costs)
            /\ row.ebitda = Sub(row.gross_profit, row.operating_expenses)
            /\ row.ebit = Sub(row.ebitda, row.depreciation)

\* An edit changed the revenue or the costs of a row and its gross profit.
C1_EditedRow ==
    \E i \in DOMAIN financial_data :
        /\ \/ financial_data[i].revenue # defaultFinancialData[i].revenue
           \/ financial_data[i].costs # defaultFinancialData[i].costs
        /\ financial_data[i].gross_profit # defaultFinancialData[i].gross_profit
        /\ financial_data[i].ebit # defaultFinancialData[i].ebit

\* C2: in every such state every row has taxes = 25% of (ebit - interest)
\* and net_income = ebit - interest - taxes, whatever the sign of
\* ebit - interest.
C2_TaxesAndNetIncome ==
    \A i \in DOMAIN financial_data :
        LET row == financial_data[i]
            pretax == Sub(row.ebit, row.interest)
        IN  /\ row.taxes = Mul(pretax, Q(25, 100))
            /\ row.net_income = Sub(pretax, row.taxes)

\* An edit left a row with a negative pretax income, hence negative taxes.
C2_NegativePretaxRow ==
    \E i \in DOMAIN financial_data :
        /\ Lt(Sub(financial_data[i].ebit, financial_data[i].interest), Num(0))
        /\ Lt(financial_data[i].taxes, Num(0))
        /\ financial_data[i].taxes # defaultFinancialData[i].taxes

(***************************************************************************)
(* The strategy sign-off.                                                  *)
(***************************************************************************)
\* C10: state.businessCase.strategy.signoff is true only if the four
\* mandatory strategy fields (problem_statement, investment_type,
\* strategic_pillar, stakeholders) are all non-empty.
C10_SignoffNeedsCompleteStrategy ==
    strategy.signoff =>
        /\ strategy.problem_statement # <<>>
        /\ strategy.investment_type # ""
        /\ strategy.strategic_pillar # ""
        /\ strategy.stakeholders # <<>>

\* The strategy is signed off, the checkbox checked and enabled.
C10_SignedOff ==
    /\ strategy.signoff
    /\ dom.signoff_checked
    /\ ~dom.signoff_disabled

(***************************************************************************)
(* The slides of the React store.                                          *)
(***************************************************************************)
\* C3: after any sequence of setBusinessCase, updateFinancialData,
\* updateSingleRow, setProjectName, setDescription, setAssumptions and
\* resetBusinessCase the slides equal generateSlides of the current business
\* case.
C3_SlidesNeverStale == store.slides = generateSlides(store.businessCase)

\* The business case is not the default one: its name, its assumptions and a
\* row of its financial data were changed.
C3_ChangedBusinessCase ==
    /\ store.businessCase.project_name # defaultBusinessCase.project_name
    /\ store.businessCase.assumptions # defaultBusinessCase.assumptions
    /\ store.businessCase.financial_data # <<>>
    /\ store.businessCase.financial_data[1].revenue = Whole(1234567)
    /\ store.slides # generateSlides(defaultBusinessCase)

(***************************************************************************)
(* The calculation engine.                                                 *)
(***************************************************************************)
\* The sum of cashFlows[i] / (1 + rate)^(i+1) over the years from k on
\* (k counts from 1, so the exponent of year k is k).
RECURSIVE DiscountedSum(_, _, _)
DiscountedSum(cashFlows, rate, k) ==
    IF k > Len(cashFlows) THEN Num(0)
    ELSE Add(Div(cashFlows[k], MathPow(Add(Num(1), rate), k)),
             DiscountedSum(cashFlows, rate, k + 1))

\* The sum of the first k cash flows.
RECURSIVE SumOfFlows(_, _)
SumOfFlows(cashFlows, k) ==
    IF k = 0 THEN Num(0) ELSE Add(SumOfFlows(cashFlows, k - 1), cashFlows[k])

\* C4: calculateNPV(cashFlows, discountRate, initialInvestment) equals
\* -initialInvestment plus the sum of cashFlows[i] / (1 + discountRate)^(i+1),
\* the first cash flow discounted one full period; for discountRate = 0 it
\* equals sum(cashFlows) - initialInvestment and for an empty list
\* -initialInvestment.
C4_NPVFormula ==
    call.fn = "calculateNPV" =>
        /\ call.result = Add(Neg(call.initialInvestment),
                             DiscountedSum(call.cashFlows, call.discountRate, 1))
        /\ call.discountRate = Num(0) =>
               call.result = Sub(SumOfFlows(call.cashFlows, Len(call.cashFlows)),
                                 call.initialInvestment)
        /\ call.cashFlows = <<>> => call.result = Neg(call.initialInvestment)

\* calculateNPV discounted three non-zero cash flows at 100%.
C4_DiscountedThreeYears ==
    /\ call.fn = "calculateNPV"
    /\ Len(call.cashFlows) = 3
    /\ \A i \in 1..3 : call.cashFlows[i] # Num(0)
    /\ call.discountRate = Num(1)
    /\ call.initialInvestment = Num(4)
    /\ IsFinite(call.result)

\* The cumulative cash flow after k years, starting at -initialInvestment.
CumulativeAfter(cashFlows, initialInvestment, k) ==
    Sub(SumOfFlows(cashFlows, k), initialInvestment)

\* C7: calculatePaybackPeriod returns null if and only if the cumulative cash
\* flow is negative after every year; otherwise it returns
\* i + |cumulative before year i| / cashFlows[i], i the first index at which
\* the cumulative cash flow is >= 0.
C7_PaybackPeriod ==
    call.fn = "calculatePaybackPeriod" =>
        LET cashFlows == call.cashFlows
            Cum(k) == CumulativeAfter(cashFlows, call.initialInvestment, k)
            paidBack == { k \in 1..Len(cashFlows) : Ge(Cum(k), Num(0)) }
        IN  /\ IsNull(call.result) <=>
                   \A k \in 1..Len(cashFlows) : Lt(Cum(k), Num(0))
            /\ paidBack # {} =>
                   LET first == CHOOSE k \in paidBack : \A j \in paidBack : k <= j
                   IN  call.result = Add(Num(first - 1),
                                         Div(MathAbs(Cum(first - 1)), cashFlows[first]))

\* The investment was paid back during the third year, after a year with a
\* loss.
C7_PaidBackInThirdYear ==
    /\ call.fn = "calculatePaybackPeriod"
    /\ call.cashFlows = << Num(3), Num(-2), Num(3) >>
    /\ call.initialInvestment = Num(4)
    /\ call.result = Add(Num(2), Q(3, 3))

\* The base cash flow of a year whose revenue is multiplied by 0.9.
BaseCashFlowAtNinetyPercent(fd, index, inflationRate) ==
    cashFlow([fd EXCEPT !.revenue = Mul(@, Q(9, 10))], index, inflationRate)

\* C8: runSensitivityAnalysis computes each stressed cash flow as
\* updateFinancialMetrics computes the base cash flow, except that the year's
\* revenue is multiplied by 0.9, and it reports 'remains viable under stress'
\* if and only if the stressed NPV is >= 0.
C8_StressedCashFlows ==
    call.fn = "runSensitivityAnalysis" =>
        LET inflationRate == Div(call.metrics.inflationRate, Num(100))
            hurdleRate == Div(call.metrics.hurdleRate, Num(100))
            expected == [i \in DOMAIN call.financial_data |->
                            BaseCashFlowAtNinetyPercent(call.financial_data[i], i - 1,
                                                        inflationRate)]
        IN  /\ call.result.stressedCashFlows = expected
            /\ call.result.verdict = "viable" <=>
                   Ge(calculateNPV(expected, hurdleRate, call.metrics.initialInvestment),
                      Num(0))

\* The stressed NPV was exactly zero and the case remained viable.
C8_ViableAtZeroStressedNPV ==
    /\ call.fn = "runSensitivityAnalysis"
    /\ call.result.stressedNpv = Num(0)
    /\ call.result.stressedCashFlows = << Num(6) >>
    /\ call.result.verdict = "viable"

\* C9: after updateFinancialMetrics, financialMetrics.rofe equals
\* (mean of net_income over all rows / initialInvestment) x 100 when
\* initialInvestment > 0, and 0 when initialInvestment <= 0.
C9_ROFE ==
    call.fn = "updateFinancialMetrics" =>
        LET rows == call.financial_data
            total == SumOfFlows([i \in DOMAIN rows |-> rows[i].net_income], Len(rows))
            mean == Div(total, Num(Len(rows)))
            initialInvestment == call.result.initialInvestment
        IN  /\ Gt(initialInvestment, Num(0)) =>
                   call.result.rofe = Mul(Div(mean, initialInvestment), Num(100))
            /\ Le(initialInvestment, Num(0)) => call.result.rofe = Num(0)

\* updateFinancialMetrics computed a ROFE that is not zero from two rows and
\* an investment of 6.
C9_ROFEOfTwoRows ==
    /\ call.fn = "updateFinancialMetrics"
    /\ Len(call.financial_data) = 2
    /\ call.result.initialInvestment = Num(6)
    /\ call.result.rofe # Num(0)

(***************************************************************************)
(* calculateIRR.                                                           *)
(***************************************************************************)
\* The exact value of a number.
ExactOf(a) ==
    IF a.e = FTop THEN [n |-> a.m, d |-> 0]
    ELSE IF a.e >= 0 THEN Whole(a.m * Pow10(a.e))
    ELSE Ratio(a.m, Pow10(-a.e))

RECURSIVE QPow(_, _)
QPow(a, k) == IF k = 0 THEN Whole(1) ELSE QMul(QPow(a, k - 1), a)

\* The exact NPV at the rate `rate`: the exact sum of
\* cashFlows[i] / (1 + rate)^(i+1) over the years from k on, less the
\* investment.
RECURSIVE ExactNPV(_, _, _, _)
ExactNPV(cashFlows, rate, initialInvestment, k) ==
    IF k > Len(cashFlows) THEN QNeg(ExactOf(initialInvestment))
    ELSE QAdd(QDiv(ExactOf(cashFlows[k]), QPow(QAdd(Whole(1), ExactOf(rate)), k)),
              ExactNPV(cashFlows, rate, initialInvestment, k + 1))

\* The derivative of the NPV with respect to the rate: minus the sum of
\* (i+1) * cashFlows[i] / (1 + rate)^(i+2), the years up to k summed in order.
RECURSIVE NPVSlope(_, _, _)
NPVSlope(cashFlows, rate, k) ==
    IF k = 0 THEN Num(0)
    ELSE Sub(NPVSlope(cashFlows, rate, k - 1),
             Div(Mul(Num(k), cashFlows[k]), MathPow(Add(Num(1), rate), k + 1)))

\* calculateIRR returned a positive rate through its convergence branch.
ConvergedPositive == irrSt.exit = "converged" /\ Gt(irrSt.value, Num(0))

\* C5 as amended: whenever calculateIRR returns a positive rate r through its
\* convergence branch, r is the Newton step from the last working rate p,
\* r = p - NPV(p) / NPV'(p), and r differs from p by less than the tolerance
\* 0.0001.
C5_LastNewtonStepWithinTolerance ==
    ConvergedPositive =>
        LET p == irrSt.irr
            npv == calculateNPV(irrIn.cashFlows, p, irrIn.initialInvestment)
            slope == NPVSlope(irrIn.cashFlows, p, Len(irrIn.cashFlows))
        IN  /\ irrSt.value = Sub(p, Div(npv, slope))
            /\ Lt(MathAbs(Sub(irrSt.value, p)), tolerance)

\* calculateIRR converged to a positive rate after more than two passes.
C5_ConvergedAfterSeveralPasses == ConvergedPositive /\ irrSt.iteration > 2

\* C5 as stated: whenever calculateIRR returns a positive rate r through its
\* convergence branch, the NPV at r, computed exactly, is zero within the
\* tolerance 0.0001.
C5_NPVZeroWithinTolerance ==
    ConvergedPositive =>
        QLt(QAbs(ExactNPV(irrIn.cashFlows, irrSt.value, irrIn.initialInvestment, 1)),
            Ratio(1, 10000))

\* C6 as stated: calculateIRR makes at most maxIterations Newton steps,
\* returns a value that is not negative, and keeps the working rate inside
\* [-0.99, 10] between iterations.
C6_BoundedNonNegative ==
    /\ irrSt.iteration <= maxIterations
    /\ irrSt.exit # "running" => ~Lt(irrSt.value, Num(0))
    /\ Le(Q(-99, 100), irrSt.irr)
    /\ Le(irrSt.irr, Num(10))

(***************************************************************************)
(* The Commercial Agent.                                                   *)
(***************************************************************************)
\* The issues of one type, in the order collected.
IssuesOfType(issues, type) == SelectSeq(issues, LAMBDA i : i.type = type)

\* The issue the priority error > warning > info selects.
MostImportant(issues) ==
    IF IssuesOfType(issues, "error") # <<>> THEN IssuesOfType(issues, "error")[1]
    ELSE IF IssuesOfType(issues, "warning") # <<>> THEN IssuesOfType(issues, "warning")[1]
    ELSE IssuesOfType(issues, "info")[1]

\* C11: every run of runCommercialAgentCheck shows one banner: the first
\* error collected if there is one, otherwise the first warning, otherwise
\* the first info; the success banner is shown if and only if no issue was
\* collected.
C11_BannerByPriority ==
    call.fn = "runCommercialAgentCheck" =>
        /\ call.result.display = "flex"
        /\ call.issues # <<>> =>
               /\ call.result.type = MostImportant(call.issues).type
               /\ call.result.message = MostImportant(call.issues).message
        /\ call.result.type = "success" <=> call.issues = <<>>

\* A run collected an info, a warning, an error and another warning, in
\* this order, and showed the error.
C11_ErrorAfterWarningShown ==
    /\ call.fn = "runCommercialAgentCheck"
    /\ Len(call.issues) = 4
    /\ call.issues[1].type = "info"
    /\ call.issues[2].type = "warning"
    /\ call.issues[3].type = "error"
    /\ call.issues[4].type = "warning"
    /\ call.result.type = "error"
    /\ call.result.message = "costs-exceed-revenue"

(***************************************************************************)
(* The React Data Deck.                                                    *)
(***************************************************************************)
\* The fields of a row that calculateDerivedFields does not compute.
EnteredFields ==
    {"year", "revenue", "costs", "operating_expenses", "depreciation", "interest"}

\* The value the field `field` of row `row` (0-based) has after the changes
\* up to the k-th: that of the last change addressed to it, `value` if none.
RECURSIVE ValueAfter(_, _, _, _, _)
ValueAfter(changes, row, field, value, k) ==
    IF k = 0 THEN value
    ELSE IF changes[k][1] = row /\ changes[k][2] = Str(field)
    THEN NumberOrZero(changes[k][4])
    ELSE ValueAfter(changes, row, field, value, k - 1)

\* The four README formulas on a row, taxes at 25% of EBIT - interest.
ReadmeFormulasHold(row) ==
    /\ row.gross_profit = QSub(row.revenue, row.costs)
    /\ row.ebitda = QSub(row.gross_profit, row.operating_expenses)
    /\ row.ebit = QSub(row.ebitda, row.depreciation)
    /\ row.taxes = QMul(QSub(row.ebit, row.interest), Ratio(1, 4))
    /\ row.net_income = QSub(QSub(row.ebit, row.interest), row.taxes)

\* C12: for a batch of changes whose source is not 'loadData', the rows
\* handleAfterChange passes to updateFinancialData satisfy the four README
\* formulas and are the rows it found with the changes applied, a change
\* addressed to a row index >= the number of rows ignored; when the source is
\* 'loadData' or the change list is null the store is not updated.
C12_DeckPassesDerivedRows ==
    call.fn = "handleAfterChange" =>
        LET found == call.found.businessCase.financial_data
        IN  IF call.source = "loadData" \/ IsNull(call.changes)
            THEN call.passed = <<>> /\ store = call.found
            ELSE /\ Len(call.passed) = 1
                 /\ store.businessCase.financial_data = call.passed[1]
                 /\ Len(call.passed[1]) = Len(found)
                 /\ \A r \in DOMAIN found :
                        /\ ReadmeFormulasHold(call.passed[1][r])
                        /\ \A f \in EnteredFields :
                               call.passed[1][r][f] =
                                   ValueAfter(call.changes.list, r - 1, f,
                                              found[r][f], Len(call.changes.list))

\* A batch with a change addressed to a row of the data and a change
\* addressed to a row index beyond its end changed the store.
C12_BatchWithRowBeyondEnd ==
    /\ call.fn = "handleAfterChange"
    /\ call.source = "edit"
    /\ ~IsNull(call.changes)
    /\ \E i, j \in DOMAIN call.changes.list :
           /\ call.changes.list[i][1] >= Len(call.found.businessCase.financial_data)
           /\ call.changes.list[j][1] < Len(call.found.businessCase.financial_data)
    /\ store # call.found

(***************************************************************************)
(* The slides of the Presentation Canvas.                                  *)
(***************************************************************************)
\* C13: for every business case of the store, generateSlides returns exactly
\* 12 slides with the ids 1..12 in ascending order; the chart slides are those
\* with the ids 3..6, and in each of them the labels and the data of every
\* dataset are as long as financial_data, the labels being the years of the
\* rows in order.
C13_TwelveSlidesChartsAligned ==
    LET slides == generateSlides(store.businessCase)
        data   == store.businessCase.financial_data
    IN  /\ Len(slides) = 12
        /\ \A i \in 1..12 : slides[i].id = i
        /\ \A i \in 1..12 : slides[i].type = "chart" <=> i \in 3..6
        /\ \A i \in 3..6 :
               /\ Len(slides[i].chartData.labels) = Len(data)
               /\ \A k \in DOMAIN data :
                      slides[i].chartData.labels[k] = ToString(data[k].year)
               /\ slides[i].chartData.datasets # <<>>
               /\ \A d \in DOMAIN slides[i].chartData.datasets :
                      Len(slides[i].chartData.datasets[d].data) = Len(data)

\* The slides of a business case of one row, which updateSingleRow changed.
C13_ChartsOfOneRow ==
    /\ Len(store.businessCase.financial_data) = 1
    /\ store.businessCase.financial_data[1].revenue = Whole(1234567)
    /\ store.slides[4].chartData.labels = <<"2030">>
    /\ Len(store.slides[4].chartData.datasets) = 2
    /\ store.slides[3].chartData.datasets[1].data = << Whole(1234567) >>

(***************************************************************************)
(* The canvas building blocks.                                             *)
(***************************************************************************)
\* The pitch step of each of the 12 default building blocks.
DefaultPitchSteps ==
    [executive_summary |-> 1, problem_statement |-> 1, solution_overview |-> 2,
     value_proposition |-> 3, market_opportunity |-> 4, financial_projections |-> 5,
     risk_analysis |-> 5, implementation_plan |-> 6, traction_validation |-> 6,
     team_resources |-> 7, call_to_action |-> 7, conclusion |-> 7]

C15_MetricsNeverStale ==
    /\ financialMetrics = updateFinancialMetrics(financial_data, dom)
    /\ banner = runCommercialAgentCheck(strategy, financial_data,
                                        updateFinancialMetrics(financial_data, dom))

(***************************************************************************)
(* Audits and resets.                                                      *)
(***************************************************************************)
\* C16: after resetBusinessCase auditResults stays null until an audit started
\* after the reset completes, in the store of the React application and in
\* the state of app.js: the response to a request that was in flight when the
\* reset happened does not repopulate it.
C16_ResetClearsAuditResults ==
    call.fn = "audit" =>
        /\ call.react.cleared => IsNull(store.auditResults)
        /\ call.page.cleared => IsNull(call.page.auditResults)

(***************************************************************************)
(* The checks of the Commercial Agent.                                     *)
(***************************************************************************)
Collected(issues, message) == \E i \in DOMAIN issues : issues[i].message = message

StrategyComplete(s) ==
    /\ s.problem_statement # <<>>
    /\ s.investment_type # ""
    /\ s.strategic_pillar # ""
    /\ s.stakeholders # <<>>

TotalRevenue(data) == SumField(data, "revenue", Num(0), 0)

TotalCosts(data) ==
    Add(SumField(data, "costs", Num(0), 0), SumField(data, "operating_expenses", Num(0), 0))

C19_SignOffBannerShown ==
    [][(HandleSignOff /\ dom'.signoff_checked)
          => banner' = showBanner("success", "signoff-complete")]_vars

(***************************************************************************)
(* The payback period of an investment that is not negative.               *)
(***************************************************************************)
\* C20: for an initial investment >= 0 and any cash flows, whenever
\* calculatePaybackPeriod returns a value that is not null, the divisor
\* cashFlows[i] is not 0 and the result p is a finite number with
\* i <= p <= i + 1, i the first index at which the cumulative cash flow is
\* >= 0; hence 0 <= p <= the number of years.
C20_PaybackFiniteWithinYear ==
    (/\ call.fn = "calculatePaybackPeriod"
     /\ Ge(call.initialInvestment, Num(0))
     /\ ~IsNull(call.result)) =>
        LET cashFlows == call.cashFlows
            paidBack == { k \in 1..Len(cashFlows) :
                            Ge(CumulativeAfter(cashFlows, call.initialInvestment, k),
                               Num(0)) }
            first == CHOOSE k \in paidBack : \A j \in paidBack : k <= j
        IN  /\ paidBack # {}
            /\ ~IsZero(cashFlows[first])
            /\ IsFinite(call.result)
            /\ Le(Num(first - 1), call.result)
            /\ Le(call.result, Num(first))
            /\ Le(Num(0), call.result)
            /\ Le(call.result, Num(Len(cashFlows)))

(***************************************************************************)
(* calculateIRR when the derivative vanishes at the initial guess.         *)
(***************************************************************************)
\* The cash flows updateFinancialMetrics computes from the rows and the text
\* of the inflation input.
CashFlowsOf(data, inputs) ==
    MapRows(data, Div(parseFloatOrDefault(inputs.inflation_rate_input, 3), Num(100)),
            FALSE, <<>>, 0)

\* The derivative of the NPV at the initial guess 0.1 is below 1e-10 in
\* absolute value.
FlatAtInitialGuess(cashFlows) ==
    Lt(MathAbs(NPVSlope(cashFlows, Q(1, 10), Len(cashFlows))), [m |-> 100000, e |-> -15])

\* C21: when the derivative is (near) zero at the first iteration, in
\* particular when all cash flows are zero or there is none, calculateIRR
\* leaves the loop through the guard on the derivative in its first pass and
\* returns the initial guess 0.1, and updateFinancialMetrics stores irr = 10.
C21_InitialGuessWhenFlat ==
    /\ call.fn = "calculateIRR" =>
           /\ (\A i \in DOMAIN call.cashFlows : IsZero(call.cashFlows[i]))
                  => FlatAtInitialGuess(call.cashFlows)
           /\ FlatAtInitialGuess(call.cashFlows) =>
                  /\ IRRRun(call.cashFlows, call.initialInvestment).exit = "guard"
                  /\ IRRRun(call.cashFlows, call.initialInvestment).iteration = 0
                  /\ call.result = Q(1, 10)
    /\ call.fn = "updateFinancialMetrics" =>
           (FlatAtInitialGuess(CashFlowsOf(call.financial_data, call.inputs))
               => call.result.irr = Num(10))

\* updateFinancialMetrics stored irr = 10 for rows of zeros and an initial
\* investment that is not 0.
C21_ZeroRowsStoreTen ==
    /\ call.fn = "updateFinancialMetrics"
    /\ Len(call.financial_data) = 2
    /\ \A i \in 1..2 : IsZero(CashFlowsOf(call.financial_data, call.inputs)[i])
    /\ ~IsZero(call.result.initialInvestment)
    /\ call.result.irr = Num(10)

(***************************************************************************)
(* A failed audit.                                                         *)
(***************************************************************************)
\* The steps of an audit that fails: its start, and its end on a response
\* that is not OK or on a thrown error.
FailedAuditStep ==
    \/ HandleRunAudit
    \/ HandleRunAuditRejected
    \/ RunAudit
    \/ RunAuditResponse
    \/ RunAuditRejected

\* C22: no step of a failed audit (its start, a response that is not OK, a
\* thrown error) changes auditResults, of the store or of the page, nor the
\* business case data: results of an earlier audit are neither cleared nor
\* replaced.
C22_FailedAuditKeepsResults ==
    [][FailedAuditStep =>
          /\ store'.auditResults = store.auditResults
          /\ store'.businessCase = store.businessCase
          /\ call'.page.auditResults = call.page.auditResults
          /\ UNCHANGED <<financial_data, strategy>>]_vars

\* An audit failed after an earlier one had succeeded, on both sides: the
\* error is shown and the earlier results are still there.
C22_FailedAfterSuccess ==
    /\ call.fn = "audit"
    /\ call.react.error /\ call.react.request = "none" /\ ~store.isAuditing
    /\ store.auditResults \in AuditReports
    /\ call.page.shown = "error" /\ call.page.pc = "none" /\ ~call.page.disabled
    /\ call.page.auditResults \in AuditReports

====
